---------------------------- MODULE Spec2Model ----------------------------
(***************************************************************************)
(* A model of boringSQL/queries: the parameter analysis of one block body  *)
(* (NewQuery and what it calls, src/queries.go), the argument binding of   *)
(* a descriptor (Query.Prepare), the line scanner that cuts a stream into  *)
(* named blocks (src/scanner.go) and the registry of descriptors           *)
(* (QueryStore, src/queries.go), with the line reader a source is loaded   *)
(* through and the concurrent readers of a loaded registry.                *)
(*                                                                         *)
(* Text is modelled as a sequence of one-character strings, so that the    *)
(* regular expressions of the source are evaluated character by character  *)
(* with Go's leftmost-first, non-overlapping FindAll / ReplaceAll          *)
(* semantics.                                                              *)
(***************************************************************************)
EXTENDS Integers, Sequences, FiniteSets, TLC

VARIABLES name, path, body, pc, result, order, callArgs, prepared

\* one run of Scanner.Run: the label of the source, the lines of its stream,
\* the number of lines read so far, the Scanner value and the state function
\* the loop holds
VARIABLES fileName, input, lineNo, scanner, state

\* the registry: the map objects of the program (the registry's own map and
\* the map a caller got from Queries), the map the caller holds, the last
\* operation with what it returned, and the number of loads so far
VARIABLES heap, snap, ret, loads

\* the concurrent readers of a loaded registry: for each reader, the call it
\* is in, the place it has reached and its local variables
VARIABLES readers

qvars == <<name, path, body, pc, result, order, callArgs, prepared>>

svars == <<fileName, input, lineNo, scanner, state>>

rvars == <<heap, snap, ret, loads>>

cvars == <<readers>>

vars == <<qvars, svars, rvars, cvars>>

(***************************************************************************)
(* Bounds of the model.                                                    *)
(***************************************************************************)
\* Longest block body analysed, in characters.
MaxLen == 6
\* Highest ordinal marker $N a body may hold (the code allocates N slots).
MaxOrdinal == 3
\* Longest block body built from whole placeholder tokens, in tokens.
MaxTokens == 4
\* Most names a caller's table of arguments holds.
MaxArgKeys == 2
\* Longest stream the scanner reads, in lines.
MaxLines == 4
\* Longest source loaded into the registry, in lines.
MaxSourceLines == 3
\* Most loads into one registry.
MaxLoads == 2
\* the longest line the line reader accepts is one character shorter: the
\* buffer of bufio.Scanner (bufio.MaxScanTokenSize, 64 KiB in Go), scaled down
MaxScanTokenSize == 12

(***************************************************************************)
(* Characters.                                                             *)
(***************************************************************************)
NL == "\n"

Letters ==
    {"a","b","c","d","e","f","g","h","i","j","k","l","m",
     "n","o","p","q","r","s","t","u","v","w","x","y","z",
     "A","B","C","D","E","F","G","H","I","J","K","L","M",
     "N","O","P","Q","R","S","T","U","V","W","X","Y","Z"}

DigitChars == <<"0","1","2","3","4","5","6","7","8","9">>

Digits == {DigitChars[i] : i \in 1..10}

\* [A-Za-z0-9_]
IdentChars == Letters \cup Digits \cup {"_"}

\* ['"]
Quotes == {"'", "\""}

\* [:@]
Sigils == {":", "@"}

(***************************************************************************)
(* Strings.                                                                *)
(***************************************************************************)
\* Str("abc") is not expressible in TLA+; texts are written as tuples.
Range(s) == {s[i] : i \in DOMAIN s}

\* s[from..] starts with t
HasPrefixAt(s, t, from) ==
    /\ from + Len(t) - 1 <= Len(s)
    /\ \A i \in 1..Len(t) : s[from + i - 1] = t[i]

\* strings.Index(s, t) as a 1-based index, 0 when t does not occur
IndexOf(s, t) ==
    IF \E p \in 1..Len(s) : HasPrefixAt(s, t, p)
    THEN CHOOSE p \in 1..Len(s) :
            /\ HasPrefixAt(s, t, p)
            /\ \A r \in 1..(p - 1) : ~HasPrefixAt(s, t, r)
    ELSE 0

\* fmt's %d of a non-negative int
RECURSIVE Decimal(_)
Decimal(n) ==
    IF n < 10 THEN <<DigitChars[n + 1]>>
    ELSE Decimal(n \div 10) \o <<DigitChars[(n % 10) + 1]>>

DigitValue(c) == CHOOSE d \in 0..9 : DigitChars[d + 1] = c

\* fmt.Sscanf(ds, "%d", &num) of a run of digits
RECURSIVE DecimalValue(_)
DecimalValue(ds) ==
    IF ds = <<>> THEN 0
    ELSE 10 * DecimalValue(SubSeq(ds, 1, Len(ds) - 1)) + DigitValue(ds[Len(ds)])

\* the end of the longest run of characters of class cls that starts at from
\* (from - 1 when s[from] is not in cls)
RunEnd(s, cls, from) ==
    CHOOSE e \in (from - 1)..Len(s) :
        /\ \A i \in from..e : s[i] \in cls
        /\ (e = Len(s) \/ s[e + 1] \notin cls)


Min(S) == CHOOSE x \in S : \A y \in S : x <= y

Max(S) == CHOOSE x \in S : \A y \in S : y <= x

(***************************************************************************)
(* The regular expressions of src/queries.go, lines 17-22.  A match is a   *)
(* record: start and end are the first and last index of the whole match,  *)
(* group is capture group 1 (match[1] in the source).                      *)
(***************************************************************************)
\* `\$(\d+)` matched at p: the last index of the match, 0 when it fails
positionalEndAt(s, p) ==
    IF /\ p + 1 <= Len(s)
       /\ s[p] = "$"
       /\ s[p + 1] \in Digits
    THEN RunEnd(s, Digits, p + 1)
    ELSE 0

positionalMatchAt(s, p) ==
    [start |-> p,
     end   |-> positionalEndAt(s, p),
     group |-> SubSeq(s, p + 1, positionalEndAt(s, p))]

\* the optional quote of `['"]?` after the sigil at p + 1 is taken greedily
\* (giving it back cannot help: the next element is a letter)
QuoteAt(s, p) == IF p <= Len(s) /\ s[p] \in Quotes THEN 1 ELSE 0

\* as paramMatchesAt, with an identifier that may start with any character
\* of [A-Za-z0-9_]
paramMatchesAt_AnyFirstChar(s, sigil, p) ==
    /\ p + 2 <= Len(s)
    /\ s[p] # sigil
    /\ s[p + 1] = sigil
    /\ p + 2 + QuoteAt(s, p + 2) <= Len(s)
    /\ s[p + 2 + QuoteAt(s, p + 2)] \in IdentChars

\* `[^X]X['"]?([A-Za-z][A-Za-z0-9_]*)['"]?` with X the sigil, matched at p
paramMatchesAt(s, sigil, p) ==
    /\ p + 2 <= Len(s)
    /\ s[p] # sigil
    /\ s[p + 1] = sigil
    /\ p + 2 + QuoteAt(s, p + 2) <= Len(s)
    /\ s[p + 2 + QuoteAt(s, p + 2)] \in Letters

paramMatchAt(s, sigil, p) ==
    LET first == p + 2 + QuoteAt(s, p + 2)
        last  == RunEnd(s, IdentChars, first)
    IN  [start |-> p,
         end   |-> last + QuoteAt(s, last + 1),
         group |-> SubSeq(s, first, last)]

\* regexp.FindAllStringSubmatch(s, -1) for positionalParamRE: leftmost
\* matches, each search resuming after the previous match
RECURSIVE FindAllPositional(_, _)
FindAllPositional(s, from) ==
    LET at == {p \in from..Len(s) : positionalEndAt(s, p) > 0}
    IN  IF at = {} THEN <<>>
        ELSE LET m == positionalMatchAt(s, Min(at))
             IN  <<m>> \o FindAllPositional(s, m.end + 1)

\* regexp.FindAllStringSubmatch(s, -1) for colonParamRE / atSignParamRE
RECURSIVE FindAllParam(_, _, _)
FindAllParam(s, sigil, from) ==
    LET at == {p \in from..Len(s) : paramMatchesAt(s, sigil, p)}
    IN  IF at = {} THEN <<>>
        ELSE LET m == paramMatchAt(s, sigil, Min(at))
             IN  <<m>> \o FindAllParam(s, sigil, m.end + 1)

positionalParamRE(s) == FindAllPositional(s, 1)

colonParamRE(s) == FindAllParam(s, ":", 1)

atSignParamRE(s) == FindAllParam(s, "@", 1)

\* namedParamRE `[:@]["']?%s["']?` for one parameter name, matched at p:
\* the last index of the match, 0 when it fails.  The name is followed by
\* nothing but the optional quote: the pattern holds no word boundary.
namedParamEndAt(s, paramName, p) ==
    IF /\ p <= Len(s)
       /\ s[p] \in Sigils
       /\ HasPrefixAt(s, paramName, p + 1 + QuoteAt(s, p + 1))
    THEN LET last == p + QuoteAt(s, p + 1) + Len(paramName)
         IN  last + QuoteAt(s, last + 1)
    ELSE 0

\* pattern.ReplaceAllLiteralString(s, repl) for the pattern of paramName
RECURSIVE ReplaceAllLiteralString(_, _, _, _)
ReplaceAllLiteralString(s, paramName, repl, from) ==
    LET at == {p \in from..Len(s) : namedParamEndAt(s, paramName, p) > 0}
    IN  IF at = {} THEN SubSeq(s, from, Len(s))
        ELSE LET p == Min(at)
             IN  SubSeq(s, from, p - 1) \o repl
                 \o ReplaceAllLiteralString(s, paramName, repl,
                                            namedParamEndAt(s, paramName, p) + 1)

(***************************************************************************)
(* stripSQLComments, src/queries.go lines 176-188.                         *)
(***************************************************************************)
CommentMarker == <<"-", "-">>

\* strings.Split(s, "\n")
RECURSIVE Split(_)
Split(s) ==
    LET nl == IndexOf(s, <<NL>>)
    IN  IF nl = 0 THEN <<s>>
        ELSE <<SubSeq(s, 1, nl - 1)>> \o Split(SubSeq(s, nl + 1, Len(s)))

\* strings.Join(lines, "\n")
RECURSIVE Join(_)
Join(lines) ==
    IF Len(lines) = 0 THEN <<>>
    ELSE IF Len(lines) = 1 THEN lines[1]
    ELSE lines[1] \o <<NL>> \o Join(Tail(lines))

\* the loop body: line[:idx] when the line holds "--"
stripLine(line) ==
    LET idx == IndexOf(line, CommentMarker)
    IN  IF idx > 0 THEN SubSeq(line, 1, idx - 1) ELSE line

\* as stripSQLComments, with the comments left in
stripSQLComments_Keep(query) == Join(Split(query))

stripSQLComments(query) ==
    LET lines == Split(query)
    IN  Join([i \in 1..Len(lines) |-> stripLine(lines[i])])

(***************************************************************************)
(* Reserved names, src/queries.go lines 24-26 and 378-386.                 *)
(***************************************************************************)
reservedNames == <<(<<"M", "I">>), (<<"S", "S">>)>>

isReservedName(n) == \E i \in 1..Len(reservedNames) : n = reservedNames[i]

RECURSIVE filterReservedNames(_)
filterReservedNames(matches) ==
    IF matches = <<>> THEN <<>>
    ELSE (IF ~isReservedName(Head(matches).group)
          THEN <<Head(matches)>> ELSE <<>>)
         \o filterReservedNames(Tail(matches))

(***************************************************************************)
(* validateSingleParameterStyle, src/queries.go lines 234-253.  The error  *)
(* is modelled by what its message is built from: the query name and the   *)
(* list of styles, which the message joins with " and ".                   *)
(***************************************************************************)
NoError == [kind |-> "nil"]

StylePositional == "positional ($1, $2, ...)"

StyleColon == "colon (:param)"

StyleAtSign == "at-sign (@param)"

\* as validateSingleParameterStyle, with two styles let through
validateSingleParameterStyle_AllowTwo(queryName, positional, colon, atSign) ==
    LET styles ==
            (IF Len(positional) > 0 THEN <<StylePositional>> ELSE <<>>)
            \o (IF Len(colon) > 0 THEN <<StyleColon>> ELSE <<>>)
            \o (IF Len(atSign) > 0 THEN <<StyleAtSign>> ELSE <<>>)
    IN  IF Len(styles) > 2
        THEN [kind |-> "mixed parameter styles",
              query |-> queryName, found |-> styles]
        ELSE NoError

validateSingleParameterStyle(queryName, positional, colon, atSign) ==
    LET styles ==
            (IF Len(positional) > 0 THEN <<StylePositional>> ELSE <<>>)
            \o (IF Len(colon) > 0 THEN <<StyleColon>> ELSE <<>>)
            \o (IF Len(atSign) > 0 THEN <<StyleAtSign>> ELSE <<>>)
    IN  IF Len(styles) > 1
        THEN [kind |-> "mixed parameter styles",
              query |-> queryName, found |-> styles]
        ELSE NoError

(***************************************************************************)
(* Maps are functions; EmptyMap is make(map[...]).                         *)
(***************************************************************************)
EmptyMap == [x \in {} |-> 0]

HeaderPrefix == <<"-", "-", " ", "n", "a", "m", "e", ":", " ">>

\* fmt.Sprintf("-- name: %s\n%s", name, query)
OrdinalText(queryName, query) == HeaderPrefix \o queryName \o <<NL>> \o query

(***************************************************************************)
(* handlePositionalParams, src/queries.go lines 255-286.                   *)
(***************************************************************************)
\* as maxParam, with the number of the last marker instead of the highest
maxParam_Last(matches) ==
    IF matches = <<>> THEN 0
    ELSE DecimalValue(matches[Len(matches)].group)

\* the loop of lines 257-265
RECURSIVE maxParam(_)
maxParam(matches) ==
    IF matches = <<>> THEN 0
    ELSE LET num  == DecimalValue(Head(matches).group)
             rest == maxParam(Tail(matches))
         IN  IF num > rest THEN num ELSE rest

\* the numbers of a set, ascending
RECURSIVE ByOrdinal(_)
ByOrdinal(ns) ==
    IF ns = {} THEN <<>>
    ELSE <<Min(ns)>> \o ByOrdinal(ns \ {Min(ns)})

\* fmt.Sprintf("arg%d", i)
syntheticName(i) == <<"a", "r", "g">> \o Decimal(i)

\* as handlePositionalParams, with slots for the markers of the body only
handlePositionalParams_NoGaps(q, queryName, query, cleanQuery, matches) ==
    LET used  == {DecimalValue(matches[i].group) : i \in 1..Len(matches)} \ {0}
        slots == ByOrdinal(used)
    IN  [q EXCEPT
            !.OrdinalQuery = OrdinalText(queryName, query),
            !.Mapping      = [k \in {syntheticName(i) : i \in used} |->
                                 CHOOSE i \in used : syntheticName(i) = k],
            !.Args         = [i \in 1..Len(slots) |-> syntheticName(slots[i])],
            !.NamedArgs    = [i \in 1..Len(slots) |-> syntheticName(slots[i])]]

handlePositionalParams(q, queryName, query, cleanQuery, matches) ==
    LET n == maxParam(matches)
    IN  [q EXCEPT
            !.OrdinalQuery = OrdinalText(queryName, query),
            !.Mapping      = [k \in {syntheticName(i) : i \in 1..n} |->
                                 CHOOSE i \in 1..n : syntheticName(i) = k],
            !.Args         = [i \in 1..n |-> syntheticName(i)],
            !.NamedArgs    = [i \in 1..n |-> syntheticName(i)]]

(***************************************************************************)
(* handleNamedParams, src/queries.go lines 288-333.                        *)
(***************************************************************************)
\* as collectNamed, with the position advanced at every occurrence
RECURSIVE collectNamed_CountEvery(_, _, _)
collectNamed_CountEvery(allMatches, i, acc) ==
    IF i > Len(allMatches) THEN acc
    ELSE LET variable == allMatches[i].group
         IN  IF isReservedName(variable)
             THEN collectNamed_CountEvery(allMatches, i + 1, acc)
             ELSE IF variable \in DOMAIN acc.mapping
             THEN collectNamed_CountEvery(allMatches, i + 1,
                      [acc EXCEPT !.args = Append(@, variable),
                                  !.position = @ + 1])
             ELSE collectNamed_CountEvery(allMatches, i + 1,
                      [mapping   |-> acc.mapping @@ (variable :> acc.position),
                       namedArgs |-> Append(acc.namedArgs, variable),
                       args      |-> Append(acc.args, variable),
                       position  |-> acc.position + 1])

\* the loop of lines 301-319 from match i on; acc holds mapping, namedArgs,
\* args and position
RECURSIVE collectNamed(_, _, _)
collectNamed(allMatches, i, acc) ==
    IF i > Len(allMatches) THEN acc
    ELSE LET variable == allMatches[i].group
         IN  IF isReservedName(variable)
             THEN collectNamed(allMatches, i + 1, acc)
             ELSE IF variable \in DOMAIN acc.mapping
             THEN collectNamed(allMatches, i + 1,
                      [acc EXCEPT !.args = Append(@, variable)])
             ELSE collectNamed(allMatches, i + 1,
                      [mapping   |-> acc.mapping @@ (variable :> acc.position),
                       namedArgs |-> Append(acc.namedArgs, variable),
                       args      |-> Append(acc.args, variable),
                       position  |-> acc.position + 1])

\* lines 289-319: what the scan of cleanQuery collects
scanNamed(cleanQuery) ==
    collectNamed(colonParamRE(cleanQuery) \o atSignParamRE(cleanQuery), 1,
                 [mapping |-> EmptyMap, namedArgs |-> <<>>, args |-> <<>>,
                  position |-> 1])

\* the loop of lines 322-325, the map ranged over in the order keys
RECURSIVE replaceNamed(_, _, _)
replaceNamed(query, mapping, keys) ==
    IF keys = <<>> THEN query
    ELSE replaceNamed(
            ReplaceAllLiteralString(query, Head(keys),
                                    <<"$">> \o Decimal(mapping[Head(keys)]), 1),
            mapping, Tail(keys))

\* as handleNamedParams, with the rewritten text stored in Raw too
handleNamedParams_RewriteRaw(q, queryName, query, cleanQuery, keys) ==
    LET acc == scanNamed(cleanQuery)
    IN  [q EXCEPT
            !.Raw          = replaceNamed(query, acc.mapping, keys),
            !.OrdinalQuery = OrdinalText(queryName,
                                 replaceNamed(query, acc.mapping, keys)),
            !.Mapping      = acc.mapping,
            !.Args         = acc.args,
            !.NamedArgs    = acc.namedArgs]

handleNamedParams(q, queryName, query, cleanQuery, keys) ==
    LET acc == scanNamed(cleanQuery)
    IN  [q EXCEPT
            !.OrdinalQuery = OrdinalText(queryName,
                                 replaceNamed(query, acc.mapping, keys)),
            !.Mapping      = acc.mapping,
            !.Args         = acc.args,
            !.NamedArgs    = acc.namedArgs]

(***************************************************************************)
(* NewQuery, src/queries.go lines 190-222.  keys is the order in which the *)
(* range statement of line 322 yields the names of the mapping: Go leaves  *)
(* the iteration order of a map unspecified.  The result is the pair of a *)
(* query pointer and an error that the function returns.                   *)
(***************************************************************************)
Nil == "nil"

\* a *Query is a sequence of at most one descriptor: nil is the empty one
NilQuery == <<>>

\* a map[string]string that may be nil
NilMap == [isNil |-> TRUE, m |-> EmptyMap]

NewQuery(queryName, queryPath, query, metadata, keys) ==
    LET q == [Name         |-> queryName,
              Path         |-> queryPath,
              Raw          |-> query,
              OrdinalQuery |-> <<>>,
              Mapping      |-> EmptyMap,
              Args         |-> <<>>,
              NamedArgs    |-> <<>>,
              Metadata     |-> IF metadata.isNil THEN EmptyMap ELSE metadata.m]
        cleanQuery        == stripSQLComments(query)
        positionalMatches == positionalParamRE(cleanQuery)
        colonMatches      == filterReservedNames(colonParamRE(cleanQuery))
        atSignMatches     == filterReservedNames(atSignParamRE(cleanQuery))
        err == validateSingleParameterStyle(queryName, positionalMatches,
                                            colonMatches, atSignMatches)
    IN  IF err # NoError THEN [q |-> NilQuery, err |-> err]
        ELSE IF Len(positionalMatches) > 0
        THEN [q   |-> <<handlePositionalParams(q, queryName, query, cleanQuery,
                                               positionalMatches)>>,
              err |-> NoError]
        ELSE [q   |-> <<handleNamedParams(q, queryName, query, cleanQuery,
                                          keys)>>,
              err |-> NoError]

\* the orders in which a map with the keys of m can be ranged over
RangeOrders(m) ==
    {o \in [1..Cardinality(DOMAIN m) -> DOMAIN m] :
        \A i, j \in DOMAIN o : i # j => o[i] # o[j]}

(***************************************************************************)
(* Query.Prepare, src/queries.go lines 354-376.                            *)
(***************************************************************************)
\* sort.Slice(params, by Ord)
RECURSIVE sortByOrd(_)
sortByOrd(params) ==
    IF params = {} THEN <<>>
    ELSE LET first == CHOOSE kv \in params : \A x \in params : kv.Ord <= x.Ord
         IN  <<first>> \o sortByOrd(params \ {first})

\* args[param.Name]: the zero value nil when the key is absent
Lookup(args, k) == IF k \in DOMAIN args THEN args[k] ELSE Nil

\* as Prepare, with the names the caller's table lacks left out
Prepare_DropMissing(q, args) ==
    LET params == sortByOrd({[Name |-> k, Ord |-> q.Mapping[k]] :
                                k \in DOMAIN q.Mapping \cap DOMAIN args})
    IN  [i \in 1..Len(params) |-> args[params[i].Name]]

Prepare(q, args) ==
    LET params == sortByOrd({[Name |-> k, Ord |-> q.Mapping[k]] :
                                k \in DOMAIN q.Mapping})
    IN  [i \in 1..Cardinality(DOMAIN q.Mapping) |->
            IF i <= Len(params) THEN Lookup(args, params[i].Name) ELSE Nil]

(***************************************************************************)
(* The scanner, src/scanner.go.  A line is a text without a newline (the   *)
(* line reader has split the stream); a stream is a sequence of lines.     *)
(***************************************************************************)
TAB == "\t"

FF == "\f"

CR == "\r"

\* `\s` of Go's regexp: [\t\n\f\r ]
ReSpace == {" ", TAB, NL, FF, CR}

\* the white space of strings.TrimSpace (the ASCII part of unicode.IsSpace
\* that a text of the model can hold)
UnicodeSpace == {" ", TAB, NL, FF, CR}

\* the cutset " \t" of appendQueryLine
TrimCutset == {" ", TAB}

UpperChars ==
    <<"A","B","C","D","E","F","G","H","I","J","K","L","M",
      "N","O","P","Q","R","S","T","U","V","W","X","Y","Z">>

LowerChars ==
    <<"a","b","c","d","e","f","g","h","i","j","k","l","m",
      "n","o","p","q","r","s","t","u","v","w","x","y","z">>

\* strings.ToLower
ToLower(s) ==
    [i \in 1..Len(s) |->
        IF \E k \in 1..26 : UpperChars[k] = s[i]
        THEN LowerChars[CHOOSE k \in 1..26 : UpperChars[k] = s[i]]
        ELSE s[i]]

\* strings.Trim(s, cutset): s without its leading and trailing characters
\* of cutset
Trim(s, cutset) ==
    LET first == RunEnd(s, cutset, 1) + 1
    IN  IF first > Len(s) THEN <<>>
        ELSE LET last == CHOOSE e \in first..Len(s) :
                            /\ s[e] \notin cutset
                            /\ \A i \in (e + 1)..Len(s) : s[i] \in cutset
             IN  SubSeq(s, first, last)

\* strings.TrimSpace
TrimSpace(s) == Trim(s, UnicodeSpace)

\* strings.HasPrefix
HasPrefix(s, prefix) == HasPrefixAt(s, prefix, 1)

\* strings.TrimSuffix
TrimSuffix(s, suffix) ==
    IF Len(suffix) <= Len(s) /\ HasPrefixAt(s, suffix, Len(s) - Len(suffix) + 1)
    THEN SubSeq(s, 1, Len(s) - Len(suffix))
    ELSE s

\* filepath.Ext: the suffix that starts at the last dot of the last element
\* of the path, empty when that element has no dot
Ext(p) ==
    LET lastSlash == IF "/" \in Range(p)
                     THEN CHOOSE i \in 1..Len(p) :
                            p[i] = "/" /\ \A j \in (i + 1)..Len(p) : p[j] # "/"
                     ELSE 0
        dots == {i \in (lastSlash + 1)..Len(p) : p[i] = "."}
    IN  IF dots = {} THEN <<>>
        ELSE SubSeq(p, CHOOSE i \in dots : \A j \in dots : j <= i, Len(p))

\* filepath.Base: the last element of the path, trailing slashes dropped
Base(p) ==
    LET end == CHOOSE e \in 0..Len(p) :
                  /\ \A i \in (e + 1)..Len(p) : p[i] = "/"
                  /\ (e = 0 \/ p[e] # "/")
        slashes == {i \in 1..end : p[i] = "/"}
    IN  IF p = <<>> THEN <<".">>
        ELSE IF end = 0 THEN <<"/">>
        ELSE IF slashes = {} THEN SubSeq(p, 1, end)
        ELSE SubSeq(p, (CHOOSE i \in slashes : \A j \in slashes : j <= i) + 1, end)

\* `^\s*--\s*` : the index after the comment marker and the white space
\* around it, 0 when the line does not start that way
AfterMarker(line) ==
    LET dash == RunEnd(line, ReSpace, 1) + 1
    IN  IF HasPrefixAt(line, CommentMarker, dash)
        THEN RunEnd(line, ReSpace, dash + 2) + 1
        ELSE 0

NameDirective == <<"n", "a", "m", "e", ":">>

\* getTag, lines 25-32: `^\s*--\s*name:\s*(\S+)`, the empty text when the
\* line does not match
getTag(line) ==
    LET p == AfterMarker(line)
    IN  IF p > 0 /\ HasPrefixAt(line, NameDirective, p)
        THEN LET first == RunEnd(line, ReSpace, p + Len(NameDirective)) + 1
             IN  SubSeq(line, first,
                        RunEnd(line, Range(line) \ ReSpace, first))
        ELSE <<>>

\* [a-zA-Z0-9_-]
KeyChars == IdentChars \cup {"-"}

NoMetadata == [key |-> <<>>, value |-> <<>>, ok |-> FALSE]

\* getMetadata, lines 34-44:
\* `^\s*--\s*([a-zA-Z][a-zA-Z0-9_-]*):\s*(.+)\s*$`
getMetadata(line) ==
    LET p == AfterMarker(line)
    IN  IF p = 0 \/ p > Len(line) \/ line[p] \notin Letters THEN NoMetadata
        ELSE LET e    == RunEnd(line, KeyChars, p)
                 rest == SubSeq(line, e + 2, Len(line))
                 lead == RunEnd(rest, ReSpace, 1)
                 \* `\s*` gives back one character when the rest is blank
                 group2 == IF lead = Len(rest)
                           THEN SubSeq(rest, Len(rest), Len(rest))
                           ELSE SubSeq(rest, lead + 1, Len(rest))
                 group1 == SubSeq(line, p, e)
             IN  IF e + 1 > Len(line) \/ line[e + 1] # ":" \/ rest = <<>>
                    \/ group1 = <<"n", "a", "m", "e">>
                 THEN NoMetadata
                 ELSE [key   |-> ToLower(TrimSpace(group1)),
                       value |-> TrimSpace(group2),
                       ok    |-> TRUE]

(***************************************************************************)
(* The Scanner value is a record of its fields line, queries and current   *)
(* (the field metadata is never used by the source).  queries maps a name  *)
(* to a ScannedQuery; a name outside its domain is a nil entry.  A state   *)
(* function returns the scanner it leaves and the state function to run on *)
(* the next line.                                                          *)
(***************************************************************************)
NewScannedQuery == [Query |-> <<>>, Metadata |-> EmptyMap]

\* lines 81-86 and 98-103: the entry of the current name, made when nil
EnsureCurrent(s) ==
    IF s.current \in DOMAIN s.queries THEN s.queries
    ELSE s.queries @@ (s.current :> NewScannedQuery)

\* a map with key k set to v
MapSet(m, k, v) == [x \in DOMAIN m \cup {k} |-> IF x = k THEN v ELSE m[x]]

\* as appendQueryLine, without the test of lines 77-79: a blank line is
\* appended too
appendQueryLine_KeepBlank(s) ==
    LET line == Trim(s.line, TrimCutset)
        qs   == EnsureCurrent(s)
        current == qs[s.current].Query
    IN  [s EXCEPT !.queries =
            [qs EXCEPT ![s.current].Query =
                (IF Len(current) > 0 THEN current \o <<NL>> ELSE current)
                \o line]]

\* appendQueryLine, lines 75-95
appendQueryLine(s) ==
    LET line == Trim(s.line, TrimCutset)
        qs   == EnsureCurrent(s)
        current == qs[s.current].Query
    IN  IF Len(line) = 0 THEN s
        ELSE [s EXCEPT !.queries =
                [qs EXCEPT ![s.current].Query =
                    (IF Len(current) > 0 THEN current \o <<NL>> ELSE current)
                    \o line]]

\* as appendMetadata, with a key that the table already has left as it is
appendMetadata_FirstWins(s, key, value) ==
    LET qs == EnsureCurrent(s)
    IN  [s EXCEPT !.queries =
            [qs EXCEPT ![s.current].Metadata =
                IF key \in DOMAIN @ THEN @ ELSE MapSet(@, key, value)]]

\* appendMetadata, lines 97-105
appendMetadata(s, key, value) ==
    LET qs == EnsureCurrent(s)
    IN  [s EXCEPT !.queries =
            [qs EXCEPT ![s.current].Metadata = MapSet(@, key, value)]]

\* as initialState, with a metadata line read while seeking attached to the
\* current name
initialState_KeepMetadata(s) ==
    LET tag     == getTag(s.line)
        trimmed == TrimSpace(s.line)
        md      == getMetadata(s.line)
    IN  IF Len(tag) > 0
        THEN [s |-> [s EXCEPT !.current = tag], next |-> "queryState"]
        ELSE IF md.ok
        THEN [s |-> appendMetadata(s, md.key, md.value), next |-> "initialState"]
        ELSE IF trimmed = <<>> \/ HasPrefix(trimmed, CommentMarker)
        THEN [s |-> s, next |-> "initialState"]
        ELSE [s |-> appendQueryLine(s), next |-> "queryState"]

\* as initialState, with the line that ends the seeking skipped and not
\* appended (line 60 left out)
initialState_SkipFirstLine(s) ==
    LET tag     == getTag(s.line)
        trimmed == TrimSpace(s.line)
    IN  IF Len(tag) > 0
        THEN [s |-> [s EXCEPT !.current = tag], next |-> "queryState"]
        ELSE IF trimmed = <<>> \/ HasPrefix(trimmed, CommentMarker)
        THEN [s |-> s, next |-> "initialState"]
        ELSE [s |-> s, next |-> "queryState"]

\* initialState, lines 46-62
initialState(s) ==
    LET tag     == getTag(s.line)
        trimmed == TrimSpace(s.line)
    IN  IF Len(tag) > 0
        THEN [s |-> [s EXCEPT !.current = tag], next |-> "queryState"]
        ELSE IF trimmed = <<>> \/ HasPrefix(trimmed, CommentMarker)
        THEN [s |-> s, next |-> "initialState"]
        ELSE [s |-> appendQueryLine(s), next |-> "queryState"]

\* as queryState, with a name directive starting the block of its name
\* afresh
queryState_ResetOnDirective(s) ==
    LET tag == getTag(s.line)
        md  == getMetadata(s.line)
    IN  [s |-> IF Len(tag) > 0
               THEN [s EXCEPT !.current = tag,
                              !.queries = [n \in DOMAIN @ \ {tag} |-> @[n]]]
               ELSE IF md.ok THEN appendMetadata(s, md.key, md.value)
               ELSE appendQueryLine(s),
         next |-> "queryState"]

\* as queryState, with a blank line sending the scanner back to seeking
queryState_BlankEnds(s) ==
    LET tag == getTag(s.line)
        md  == getMetadata(s.line)
    IN  [s |-> IF Len(tag) > 0 THEN [s EXCEPT !.current = tag]
               ELSE IF md.ok THEN appendMetadata(s, md.key, md.value)
               ELSE appendQueryLine(s),
         next |-> IF TrimSpace(s.line) = <<>> THEN "initialState"
                  ELSE "queryState"]

\* as queryState, with a metadata line set in the table of every block made
\* so far
queryState_MetadataToAll(s) ==
    LET tag == getTag(s.line)
        md  == getMetadata(s.line)
    IN  [s |-> IF Len(tag) > 0 THEN [s EXCEPT !.current = tag]
               ELSE IF md.ok
               THEN [s EXCEPT !.queries =
                       [n \in DOMAIN EnsureCurrent(s) |->
                           [EnsureCurrent(s)[n] EXCEPT
                               !.Metadata = MapSet(@, md.key, md.value)]]]
               ELSE appendQueryLine(s),
         next |-> "queryState"]

\* queryState, lines 64-73
queryState(s) ==
    LET tag == getTag(s.line)
        md  == getMetadata(s.line)
    IN  [s |-> IF Len(tag) > 0 THEN [s EXCEPT !.current = tag]
               ELSE IF md.ok THEN appendMetadata(s, md.key, md.value)
               ELSE appendQueryLine(s),
         next |-> "queryState"]

\* lines 108-110 of Run: the scanner before the first line is read
StartScanner(file) ==
    [line    |-> <<>>,
     queries |-> EmptyMap,
     current |-> Base(TrimSuffix(file, Ext(file)))]

\* one turn of the loop of Run, lines 112-115: the next line is read and
\* handed to the current state function
ScanLine(s, st, text) ==
    LET read == [s EXCEPT !.line = text]
    IN  IF st = "initialState" THEN initialState(read) ELSE queryState(read)

\* the loop of Run over the lines not yet read
RECURSIVE RunLoop(_, _, _)
RunLoop(s, st, lines) ==
    IF lines = <<>> THEN s
    ELSE LET r == ScanLine(s, st, Head(lines))
         IN  RunLoop(r.s, r.next, Tail(lines))

\* Scanner.Run, lines 107-118
Run(file, lines) == RunLoop(StartScanner(file), "initialState", lines).queries

\* as GetMetadata, with the key looked up as it is given
GetMetadata_Exact(q, key) ==
    IF key \in DOMAIN q.Metadata
    THEN [value |-> q.Metadata[key], ok |-> TRUE]
    ELSE [value |-> <<>>, ok |-> FALSE]

\* Query.GetMetadata, src/queries.go lines 345-350: the value and the flag
\* of the map read, the zero value "" for a key the map lacks
GetMetadata(q, key) ==
    LET k == ToLower(TrimSpace(key))
    IN  IF k \in DOMAIN q.Metadata
        THEN [value |-> q.Metadata[k], ok |-> TRUE]
        ELSE [value |-> <<>>, ok |-> FALSE]

(***************************************************************************)
(* QueryStore, src/queries.go lines 29-31 and 45-171.  A map of the        *)
(* program is an object on the heap, reached through a reference; the      *)
(* registry's field queries holds the reference QueriesRef for its whole   *)
(* life (NewQueryStore, lines 46-50).                                      *)
(***************************************************************************)
QueriesRef == "s.queries"

\* the map that Queries makes, line 145
QueriesCopyRef == "queriesCopy"

NewQueryStore == (QueriesRef :> EmptyMap)

\* the characters of the model in byte order, for the comparison of strings
ByteOrder ==
    <<TAB, NL, FF, CR, " ", "\"", "$", "'", "-", ".", "/">> \o DigitChars
    \o <<":", "@">> \o UpperChars \o <<"_">> \o LowerChars

ByteOf(c) == CHOOSE i \in 1..Len(ByteOrder) : ByteOrder[i] = c

\* a < b for Go strings: byte by byte, a proper prefix first
RECURSIVE StringLess(_, _)
StringLess(a, b) ==
    IF b = <<>> THEN FALSE
    ELSE IF a = <<>> THEN TRUE
    ELSE IF Head(a) # Head(b) THEN ByteOf(Head(a)) < ByteOf(Head(b))
    ELSE StringLess(Tail(a), Tail(b))

\* sort.Strings of the elements of a set
RECURSIVE SortStrings(_)
SortStrings(S) ==
    IF S = {} THEN <<>>
    ELSE LET least == CHOOSE x \in S : \A y \in S \ {x} : StringLess(x, y)
         IN  <<least>> \o SortStrings(S \ {least})

NotFound(queryName) == [kind |-> "not found", query |-> queryName]

\* as Query, with no error for a name the registry lacks
Query_NoError(h, queryName) ==
    IF queryName \in DOMAIN h[QueriesRef]
    THEN [q |-> <<h[QueriesRef][queryName]>>, err |-> NoError]
    ELSE [q |-> NilQuery, err |-> NoError]

\* QueryStore.Query, lines 123-130
Query(h, queryName) ==
    IF queryName \in DOMAIN h[QueriesRef]
    THEN [q |-> <<h[QueriesRef][queryName]>>, err |-> NoError]
    ELSE [q |-> NilQuery, err |-> NotFound(queryName)]

\* as QueryNames, with the names in descending order
QueryNames_Descending(h) ==
    LET sorted == SortStrings(DOMAIN h[QueriesRef])
    IN  [i \in 1..Len(sorted) |-> sorted[Len(sorted) + 1 - i]]

\* QueryStore.QueryNames, lines 133-140
QueryNames(h) == SortStrings(DOMAIN h[QueriesRef])

\* as Queries, with the registry's own map returned and no copy made
Queries_Alias(h) == [heap |-> h, ref |-> QueriesRef]

\* QueryStore.Queries, lines 143-150: the heap with the new map, and the
\* reference returned
Queries(h) ==
    [heap |-> MapSet(h, QueriesCopyRef,
                     [n \in DOMAIN h[QueriesRef] |-> h[QueriesRef][n]]),
     ref  |-> QueriesCopyRef]

AlreadyExists(queryName) == [kind |-> "already exists", query |-> queryName]

ErrorCreating(queryName, err) ==
    [kind |-> "Error creating query", query |-> queryName, cause |-> err]

\* as loadLoop, without the test of line 158: a name already registered is
\* overwritten
RECURSIVE loadLoop_Overwrite(_, _, _, _, _)
loadLoop_Overwrite(queries, file, newQueries, names, keysOf) ==
    IF names = <<>> THEN [queries |-> queries, err |-> NoError]
    ELSE LET n == Head(names)
             scannedQuery == newQueries[n]
             r == NewQuery(n, file, scannedQuery.Query,
                           [isNil |-> FALSE, m |-> scannedQuery.Metadata],
                           keysOf[n])
         IN  IF r.err # NoError
             THEN [queries |-> queries, err |-> ErrorCreating(n, r.err)]
             ELSE loadLoop_Overwrite(MapSet(queries, n, r.q[1]), file,
                                     newQueries, Tail(names), keysOf)

\* the loop of loadQueriesFromFile, lines 156-168, over the names the range
\* statement has yet to yield; keysOf gives, for each block, the order of
\* the range statement of line 322
RECURSIVE loadLoop(_, _, _, _, _)
loadLoop(queries, file, newQueries, names, keysOf) ==
    IF names = <<>> THEN [queries |-> queries, err |-> NoError]
    ELSE LET n == Head(names)
             scannedQuery == newQueries[n]
             r == NewQuery(n, file, scannedQuery.Query,
                           [isNil |-> FALSE, m |-> scannedQuery.Metadata],
                           keysOf[n])
         IN  IF n \in DOMAIN queries
             THEN [queries |-> queries, err |-> AlreadyExists(n)]
             ELSE IF r.err # NoError
             THEN [queries |-> queries, err |-> ErrorCreating(n, r.err)]
             ELSE loadLoop(MapSet(queries, n, r.q[1]), file, newQueries,
                           Tail(names), keysOf)

\* The line reader of lines 153-154, bufio.NewScanner(r) with the split
\* function ScanLines: Scan delivers the lines of the stream one by one and
\* returns false at the end of the stream or at the first line that does not
\* fit its buffer, after which Err returns ErrTooLong.
ErrTooLong == [kind |-> "bufio.Scanner: token too long"]

TooLong(line) == Len(line) >= MaxScanTokenSize

\* the lines for which io.Scan() returns true
RECURSIVE ScanTokens(_)
ScanTokens(stream) ==
    IF stream = <<>> \/ TooLong(Head(stream)) THEN <<>>
    ELSE <<Head(stream)>> \o ScanTokens(Tail(stream))

\* what io.Err() returns once Scan has returned false
ScanErr(stream) ==
    IF \E i \in 1..Len(stream) : TooLong(stream[i]) THEN ErrTooLong
    ELSE NoError

\* QueryStore.loadQueriesFromFile, lines 152-171: names is the order in
\* which the range statement of line 156 yields the scanned blocks (Go
\* leaves the iteration order of a map unspecified)
loadQueriesFromFile(h, file, lines, names, keysOf) ==
    LET r == loadLoop(h[QueriesRef], file, Run(file, lines), names, keysOf)
    IN  [heap |-> MapSet(h, QueriesRef, r.queries), err |-> r.err]

\* loadQueriesFromFile on a reader r whose content is stream: Run is given
\* the lines that bufio.NewScanner(r) delivers, lines 153-154 and
\* scanner.go 112-113
loadQueriesFromReader(h, file, stream, names, keysOf) ==
    loadQueriesFromFile(h, file, ScanTokens(stream), names, keysOf)

(***************************************************************************)
(* The inputs: block bodies over small alphabets, each alphabet chosen to  *)
(* hold the characters of one family of cases.  A larger alphabet gets     *)
(* shorter texts, so that every family stays enumerable.                   *)
(***************************************************************************)
Alphabets ==
    { {" ", ":", "a"},            \* named: repeats, a name that prefixes another
      {":", "a", "-"},            \* named, with a comment on the same line
      {" ", ":", "S"},            \* the reserved name SS beside a parameter S
      {"$", "0", "2"},            \* ordinal: gaps, repeats, leading zeros
      {":", "a", "-", NL},        \* named, comments on lines of their own
      {"$", "2", "-", NL},        \* ordinal, comments on lines of their own
      {":", "a", "'", " "},       \* quoted names
      {":", "@", "M", "I"},       \* the reserved name MI in both named styles
      {":", "@", "$", "1", "a"} } \* the three conventions mixed

\* the texts over alphabet A of at most n characters
Texts(A, n) == UNION {[1..k -> A] : k \in 0..n}

LenFor(A) == MaxLen + 3 - Cardinality(A)

\* whole tokens, for bodies with more placeholders than MaxLen characters
\* can hold
Tokens ==
    { <<" ", ":", "a">>, <<" ", ":", "a", "b">>, <<" ", "@", "a">>,
      <<" ", "$", "2">>, <<" ", ":", "M">>, <<" ", ":", "M", "I">>,
      <<"-", "-">>, <<NL>> }

\* the concatenations of at most n tokens
RECURSIVE Phrases(_)
Phrases(n) ==
    IF n = 0 THEN {<<>>}
    ELSE Phrases(n - 1) \cup {p \o t : p \in Phrases(n - 1), t \in Tokens}

Bodies == UNION {Texts(A, LenFor(A)) : A \in Alphabets} \cup Phrases(MaxTokens)

\* the bodies whose descriptors are bound to arguments
PrepareAlphabets == { {" ", ":", "a"}, {"$", "0", "2", " "} }

PrepareTokens == {<<" ", ":", "a">>, <<" ", ":", "a", "b">>, <<" ", ":", "b">>}

RECURSIVE PreparePhrases(_)
PreparePhrases(n) ==
    IF n = 0 THEN {<<>>}
    ELSE PreparePhrases(n - 1)
         \cup {p \o t : p \in PreparePhrases(n - 1), t \in PrepareTokens}

PrepareBodies ==
    UNION {Texts(A, LenFor(A)) : A \in PrepareAlphabets}
    \cup PreparePhrases(MaxTokens)

\* the name a caller may pass that no body of the model uses as a parameter
ExtraArg == <<"z">>

ArgValues == {"v1", "v2"}

\* the tables a caller passes to Prepare: a value for up to MaxArgKeys names
CallerTables(q) ==
    UNION {[K -> ArgValues] :
            K \in {K \in SUBSET (DOMAIN q.Mapping \cup {ExtraArg}) :
                      Cardinality(K) <= MaxArgKeys}}

(***************************************************************************)
(* The state machine: a body is analysed once (NewQueryStep), and the      *)
(* descriptor, if there is one, is bound to a caller's table (PrepareStep).*)
(***************************************************************************)
\* the code allocates one slot per ordinal up to the highest marker: the
\* model analyses the bodies whose highest marker is at most MaxOrdinal
WithinOrdinalBound(query) ==
    \/ "$" \notin Range(query)
    \/ maxParam(positionalParamRE(stripSQLComments(query))) <= MaxOrdinal

\* no scanner runs
ScannerIdle ==
    /\ fileName = <<>>
    /\ input = <<>>
    /\ lineNo = 0
    /\ scanner = StartScanner(<<>>)
    /\ state = "initialState"

\* what the last operation on the registry was given and what it returned;
\* for a load, newQueries is what its call of Scanner.Run returned
NoOp ==
    [op |-> "none", file |-> <<>>, newQueries |-> EmptyMap,
     key |-> <<>>, q |-> NilQuery, err |-> NoError, names |-> <<>>,
     ioErr |-> NoError, value |-> <<>>, ok |-> FALSE]

NoRef == "nil"

\* an empty registry that nothing is loaded into
StoreIdle ==
    /\ heap = NewQueryStore
    /\ snap = NoRef
    /\ ret = NoOp
    /\ loads = 0

\* the readers of the registry, and the reference of the map each one makes
\* in Queries (line 145)
ReaderIds == {"r1", "r2"}

CopyRef(r) == "queriesCopy." \o r

\* a reader that has called nothing
ReaderIdle ==
    [pc |-> "idle", op |-> "none", key |-> <<>>, args |-> EmptyMap,
     seen |-> {}, acc |-> <<>>, len |-> 0, out |-> <<>>]

NoReaders == readers = [r \in ReaderIds |-> ReaderIdle]

QueryIdle ==
    /\ name = <<"q">>
    /\ path = "test.sql"
    /\ pc = "new"
    /\ result = [q |-> NilQuery, err |-> NoError]
    /\ order = <<>>
    /\ callArgs = EmptyMap
    /\ prepared = <<>>

InitCommon ==
    /\ QueryIdle
    /\ ScannerIdle
    /\ StoreIdle
    /\ NoReaders

InitQuery ==
    /\ body \in Bodies
    /\ WithinOrdinalBound(body)
    /\ InitCommon

InitPrepare ==
    /\ body \in PrepareBodies
    /\ WithinOrdinalBound(body)
    /\ InitCommon

\* the orders the range of line 322 may take for this body; the loop is
\* reached only on the named path
RangeChoices(query) ==
    LET cleanQuery == stripSQLComments(query)
    IN  IF Len(positionalParamRE(cleanQuery)) > 0
        THEN {<<>>}
        ELSE RangeOrders(scanNamed(cleanQuery).mapping)

NewQueryStep ==
    /\ pc = "new"
    /\ \E keys \in RangeChoices(body) :
        /\ result' = NewQuery(name, path, body, NilMap, keys)
        /\ order' = keys
    /\ pc' = "done"
    /\ UNCHANGED <<name, path, body, callArgs, prepared>>
    /\ UNCHANGED <<svars, rvars, cvars>>

PrepareStep ==
    /\ pc = "done"
    /\ result.err = NoError
    /\ \E args \in CallerTables(result.q[1]) :
        /\ callArgs' = args
        /\ prepared' = Prepare(result.q[1], args)
    /\ pc' = "prepared"
    /\ UNCHANGED <<name, path, body, result, order>>
    /\ UNCHANGED <<svars, rvars, cvars>>

NextQuery == NewQueryStep

NextPrepare == NewQueryStep \/ PrepareStep

\* the analysis of one block body
SpecQuery == InitQuery /\ [][NextQuery]_vars

\* the analysis of one block body and the binding of its descriptor
SpecPrepare == InitPrepare /\ [][NextPrepare]_vars

(***************************************************************************)
(* The scanner's state machine: Run is called on a stream (InitScan is the *)
(* state after lines 108-110) and each turn of its loop reads one line     *)
(* (ScanStep).  When every line is read, Run returns scanner.queries.      *)
(***************************************************************************)
\* the lines a stream is made of
ScanLines ==
    { <<"-", "-", " ", "n", "a", "m", "e", ":", " ", "a">>,   \* -- name: a
      <<"-", "-", "n", "a", "m", "e", ":", "b">>,            \* --name:b
      <<"-", "-", "N", "A", "M", "E", ":", "b">>,            \* --NAME:b
      <<"-", "-", "k", ":", "v">>,                           \* --k:v
      <<"-", "-", " ", "K", ":", " ", "w", " ">>,            \* -- K: w
      <<"x">>,
      <<" ", "y", TAB>>,
      <<>>,
      <<"-", "-", " ", "c">> }                               \* -- c

\* the labels of the sources
Labels ==
    { <<"a", ".", "s", "q", "l">>,                           \* a.sql
      <<"d", ".", "x", "/", "c", ".", "s", "q", "l">> }      \* d.x/c.sql

Streams(n) == UNION {[1..k -> ScanLines] : k \in 0..n}

InitScan ==
    /\ fileName \in Labels
    /\ input \in Streams(MaxLines)
    /\ lineNo = 0
    /\ scanner = StartScanner(fileName)
    /\ state = "initialState"
    /\ body = <<>>
    /\ QueryIdle
    /\ StoreIdle
    /\ NoReaders

ScanStep ==
    /\ lineNo < Len(input)
    /\ LET r == ScanLine(scanner, state, input[lineNo + 1])
       IN  /\ scanner' = r.s
           /\ state' = r.next
    /\ lineNo' = lineNo + 1
    /\ UNCHANGED <<fileName, input>>
    /\ UNCHANGED <<qvars, rvars, cvars>>

NextScan == ScanStep

\* one run of the scanner over one stream
SpecScan == InitScan /\ [][NextScan]_vars

\* the lines of the streams whose scan is followed to its end
FairLines ==
    { <<"-", "-", "n", "a", "m", "e", ":", "b">>,            \* --name:b
      <<" ", "y", TAB>>,
      <<>>,
      <<"-", "-", " ", "c">> }                               \* -- c

InitScanFair ==
    /\ fileName = <<"a", ".", "s", "q", "l">>
    /\ input \in UNION {[1..k -> FairLines] : k \in 0..MaxLines}
    /\ lineNo = 0
    /\ scanner = StartScanner(fileName)
    /\ state = "initialState"
    /\ body = <<>>
    /\ QueryIdle
    /\ StoreIdle
    /\ NoReaders

\* one run of the scanner: the loop of Run, line 112, goes on while
\* io.Scan() is true
SpecScanFair == InitScanFair /\ [][NextScan]_vars /\ WF_vars(ScanStep)

(***************************************************************************)
(* The metadata of a descriptor: a stream is scanned, one of the blocks    *)
(* Run returns is made a descriptor as loadQueriesFromFile does it         *)
(* (DescribeStep), and a caller asks the descriptor for metadata keys      *)
(* (GetMetadataStep).                                                      *)
(***************************************************************************)
MetadataLines ==
    { <<"-", "-", "n", "a", "m", "e", ":", "b">>,            \* --name:b
      <<"-", "-", "k", ":", "v">>,                           \* --k:v
      <<"-", "-", " ", "K", ":", " ", "w", " ">>,            \* -- K: w
      <<"-", "-", "M", "-", "c", ":", "u">>,                 \* --M-c:u
      <<"x">> }

\* the keys a caller asks for
AskedKeys ==
    { <<"k">>, <<"K">>, <<" ", "K", TAB>>, <<NL, "k">>, <<"m", "-", "C">>,
      <<"M", "-", "c", " ">>, <<"m">>, <<"k", " ", "k">>, <<>> }

InitMetadata ==
    /\ fileName = <<"a", ".", "s", "q", "l">>
    /\ input \in UNION {[1..k -> MetadataLines] : k \in 0..MaxLines}
    /\ lineNo = 0
    /\ scanner = StartScanner(fileName)
    /\ state = "initialState"
    /\ body = <<>>
    /\ QueryIdle
    /\ StoreIdle
    /\ NoReaders

\* queries.go line 162, for one of the blocks that Run has returned
DescribeStep ==
    /\ lineNo = Len(input)
    /\ pc = "new"
    /\ \E n \in DOMAIN scanner.queries :
         LET scannedQuery == scanner.queries[n]
         IN  \E keys \in RangeChoices(scannedQuery.Query) :
                /\ result' = NewQuery(n, fileName, scannedQuery.Query,
                                      [isNil |-> FALSE,
                                       m |-> scannedQuery.Metadata], keys)
                /\ name' = n
                /\ body' = scannedQuery.Query
                /\ order' = keys
    /\ path' = fileName
    /\ pc' = "done"
    /\ UNCHANGED <<callArgs, prepared>>
    /\ UNCHANGED <<svars, rvars, cvars>>

GetMetadataStep ==
    /\ pc = "done"
    /\ result.err = NoError
    /\ \E key \in AskedKeys :
         LET r == GetMetadata(result.q[1], key)
         IN  ret' = [NoOp EXCEPT !.op = "GetMetadata", !.key = key,
                                !.value = r.value, !.ok = r.ok]
    /\ UNCHANGED <<heap, snap, loads>>
    /\ UNCHANGED <<qvars, svars, cvars>>

NextMetadata ==
    \/ ScanStep
    \/ DescribeStep
    \/ GetMetadataStep

\* the scan of one stream and the metadata of one of its descriptors
SpecMetadata == InitMetadata /\ [][NextMetadata]_vars

(***************************************************************************)
(* The registry's state machine: sources are loaded into one QueryStore    *)
(* (LoadStep is one call of loadQueriesFromFile), and a caller looks names *)
(* up, lists them, takes the map Queries returns and changes that map.     *)
(* SpecStore follows the loads of a registry and the lookups between them; *)
(* SpecSnapshot follows a loaded registry and the map Queries returns.     *)
(***************************************************************************)
\* the lines a loaded source is made of
StoreLines ==
    { <<"-", "-", "n", "a", "m", "e", ":", "a">>,            \* --name:a
      <<"-", "-", "n", "a", "m", "e", ":", "a", "b">>,       \* --name:ab
      <<"x", ":", "p">>,                                     \* x:p
      <<"x", ":", "p", "@", "q">> }                          \* x:p@q

StoreLabels ==
    { <<"a", ".", "s", "q", "l">>,                           \* a.sql
      <<"d", "/", "B", ".", "s", "q", "l">> }                \* d/B.sql

Sources(n) == UNION {[1..k -> StoreLines] : k \in 0..n}

\* the names a caller looks up, and writes into the map it got from Queries
LookupNames == {<<"a">>, <<"B">>, <<"z">>}

\* for each scanned block, an order the range statement of line 322 may take
KeyChoices(newQueries) ==
    {f \in [DOMAIN newQueries ->
                UNION {RangeChoices(newQueries[n].Query) : n \in DOMAIN newQueries}] :
        \A n \in DOMAIN newQueries : f[n] \in RangeChoices(newQueries[n].Query)}

\* the descriptor a caller writes into the map it holds
CallerQuery ==
    [Name |-> <<"z">>, Path |-> <<>>, Raw |-> <<>>, OrdinalQuery |-> <<>>,
     Mapping |-> EmptyMap, Args |-> <<>>, NamedArgs |-> <<>>,
     Metadata |-> EmptyMap]

InitStore ==
    /\ body = <<>>
    /\ InitCommon

LoadStep ==
    /\ loads < MaxLoads
    /\ \E file \in StoreLabels, lines \in Sources(MaxSourceLines) :
         LET newQueries == Run(file, lines)
         IN  \E names \in RangeOrders(newQueries),
                keysOf \in KeyChoices(newQueries) :
                LET r == loadQueriesFromFile(heap, file, lines, names, keysOf)
                IN  /\ heap' = r.heap
                    /\ ret' = [NoOp EXCEPT !.op = "load", !.file = file,
                                           !.newQueries = newQueries,
                                           !.err = r.err]
    /\ loads' = loads + 1
    /\ UNCHANGED snap
    /\ UNCHANGED <<qvars, svars, cvars>>

QueryStep ==
    /\ \E n \in LookupNames :
         LET r == Query(heap, n)
         IN  ret' = [NoOp EXCEPT !.op = "Query", !.key = n, !.q = r.q,
                                !.err = r.err]
    /\ UNCHANGED <<heap, snap, loads>>
    /\ UNCHANGED <<qvars, svars, cvars>>

QueryNamesStep ==
    /\ ret' = [NoOp EXCEPT !.op = "QueryNames", !.names = QueryNames(heap)]
    /\ UNCHANGED <<heap, snap, loads>>
    /\ UNCHANGED <<qvars, svars, cvars>>

QueriesStep ==
    /\ LET r == Queries(heap)
       IN  /\ heap' = r.heap
           /\ snap' = r.ref
    /\ ret' = [NoOp EXCEPT !.op = "Queries"]
    /\ UNCHANGED loads
    /\ UNCHANGED <<qvars, svars, cvars>>

\* the caller deletes a key of the map it holds, or sets one
MutateStep ==
    /\ snap # NoRef
    /\ \E n \in LookupNames :
         \/ /\ n \in DOMAIN heap[snap]
            /\ heap' = [heap EXCEPT ![snap] =
                            [x \in DOMAIN @ \ {n} |-> @[x]]]
         \/ heap' = [heap EXCEPT ![snap] = MapSet(@, n, CallerQuery)]
    /\ ret' = [NoOp EXCEPT !.op = "mutate"]
    /\ UNCHANGED <<snap, loads>>
    /\ UNCHANGED <<qvars, svars, cvars>>

NextStore ==
    \/ LoadStep
    \/ QueryStep
    \/ QueryNamesStep

\* loads into one registry, and its readers
SpecStore == InitStore /\ [][NextStore]_vars

\* a line the line reader does not accept
LongLine == [i \in 1..MaxScanTokenSize |-> "x"]

\* the lines of a source read through the line reader
LineReaderLines ==
    { <<"-", "-", "n", "a", "m", "e", ":", "a">>,            \* --name:a
      <<"x", ":", "p">>,                                     \* x:p
      LongLine }

LineReaderStreams(n) == UNION {[1..k -> LineReaderLines] : k \in 0..n}

\* one call of loadQueriesFromFile on a reader; ioErr is the error the line
\* reader is left with
LoadReaderStep ==
    /\ loads < MaxLoads
    /\ \E file \in StoreLabels, stream \in LineReaderStreams(MaxSourceLines) :
         LET newQueries == Run(file, ScanTokens(stream))
         IN  \E names \in RangeOrders(newQueries),
                keysOf \in KeyChoices(newQueries) :
                LET r == loadQueriesFromReader(heap, file, stream, names,
                                               keysOf)
                IN  /\ heap' = r.heap
                    /\ ret' = [NoOp EXCEPT !.op = "load", !.file = file,
                                           !.newQueries = newQueries,
                                           !.err = r.err,
                                           !.ioErr = ScanErr(stream)]
    /\ loads' = loads + 1
    /\ UNCHANGED snap
    /\ UNCHANGED <<qvars, svars, cvars>>

NextLineReader ==
    \/ LoadReaderStep
    \/ QueryStep
    \/ QueryNamesStep

\* loads through the line reader into one registry, and its readers
SpecLineReader == InitStore /\ [][NextLineReader]_vars

\* a registry after its first load
InitSnapshot ==
    /\ body = <<>>
    /\ QueryIdle
    /\ ScannerIdle
    /\ \E file \in StoreLabels, lines \in Sources(MaxSourceLines) :
         LET newQueries == Run(file, lines)
         IN  \E names \in RangeOrders(newQueries),
                keysOf \in KeyChoices(newQueries) :
                LET r == loadQueriesFromFile(NewQueryStore, file, lines,
                                             names, keysOf)
                IN  /\ heap = r.heap
                    /\ ret = [NoOp EXCEPT !.op = "load", !.file = file,
                                          !.newQueries = newQueries,
                                          !.err = r.err]
    /\ snap = NoRef
    /\ loads = 1
    /\ NoReaders

NextSnapshot ==
    \/ QueryStep
    \/ QueryNamesStep
    \/ QueriesStep
    \/ MutateStep

\* a loaded registry, its readers, and a caller that changes the map it got
\* from Queries
SpecSnapshot == InitSnapshot /\ [][NextSnapshot]_vars

(***************************************************************************)
(* Concurrent readers of a loaded registry.  Each reader makes one call    *)
(* of Query, QueryNames, Queries or Prepare; a call is a sequence of steps *)
(* with one access to shared memory each (one read of the map, one turn of *)
(* a range loop), and the steps of the readers interleave.  What a call    *)
(* keeps in local variables is in the reader's record.                     *)
(***************************************************************************)
\* the lines of the source the registry is loaded from
ReadersLines ==
    { <<"-", "-", "n", "a", "m", "e", ":", "a">>,            \* --name:a
      <<"x", ":", "p">>,                                     \* x:p
      <<"x", ":", "p", " ", ":", "q">> }                     \* x:p :q

\* the tables the readers pass to Prepare
ReadersTables ==
    LET all == (<<"p">> :> "v1") @@ (<<"q">> :> "v2")
    IN  {[k \in K |-> all[k]] : K \in SUBSET DOMAIN all}

\* a registry after its only load
InitReaders ==
    /\ body = <<>>
    /\ QueryIdle
    /\ ScannerIdle
    /\ \E file \in StoreLabels,
          lines \in UNION {[1..k -> ReadersLines] : k \in 0..MaxSourceLines} :
         LET newQueries == Run(file, lines)
         IN  \E names \in RangeOrders(newQueries),
                keysOf \in KeyChoices(newQueries) :
                LET r == loadQueriesFromFile(NewQueryStore, file, lines,
                                             names, keysOf)
                IN  /\ heap = r.heap
                    /\ ret = [NoOp EXCEPT !.op = "load", !.file = file,
                                          !.newQueries = newQueries,
                                          !.err = r.err]
    /\ snap = NoRef
    /\ loads = 1
    /\ NoReaders

\* reader r goes on with its local variables changed, shared memory as it is
Local(r, rd) ==
    /\ readers' = [readers EXCEPT ![r] = rd]
    /\ UNCHANGED <<heap, snap, ret, loads>>
    /\ UNCHANGED <<qvars, svars>>

\* the keys a range statement of reader r has yet to yield from map mp
Unseen(r, mp) == DOMAIN mp \ readers[r].seen

\* QueryStore.Query, lines 123-130: one read of the map
CallQuery(r) ==
    /\ readers[r].pc = "idle"
    /\ \E n \in LookupNames :
         Local(r, [readers[r] EXCEPT !.pc = "done", !.op = "Query",
                                     !.key = n, !.out = Query(heap, n)])

\* QueryStore.QueryNames, line 134
CallQueryNames(r) ==
    /\ readers[r].pc = "idle"
    /\ Local(r, [readers[r] EXCEPT !.pc = "range", !.op = "QueryNames",
                                   !.acc = <<>>])

\* one turn of the loop of lines 135-137
RangeQueryNames(r) ==
    /\ readers[r].pc = "range"
    /\ readers[r].op = "QueryNames"
    /\ \E n \in Unseen(r, heap[QueriesRef]) :
         Local(r, [readers[r] EXCEPT !.seen = @ \cup {n},
                                     !.acc = Append(@, n)])

\* lines 138-139, when the loop has ended
ReturnQueryNames(r) ==
    /\ readers[r].pc = "range"
    /\ readers[r].op = "QueryNames"
    /\ Unseen(r, heap[QueriesRef]) = {}
    /\ Local(r, [readers[r] EXCEPT !.pc = "done",
                                   !.out = SortStrings(Range(readers[r].acc))])

\* QueryStore.Queries, line 145: the reader's new map
CallQueries(r) ==
    /\ readers[r].pc = "idle"
    /\ readers' = [readers EXCEPT ![r] =
                      [@ EXCEPT !.pc = "range", !.op = "Queries"]]
    /\ heap' = MapSet(heap, CopyRef(r), EmptyMap)
    /\ UNCHANGED <<snap, ret, loads>>
    /\ UNCHANGED <<qvars, svars>>

\* one turn of the loop of lines 146-148
RangeQueries(r) ==
    /\ readers[r].pc = "range"
    /\ readers[r].op = "Queries"
    /\ \E n \in Unseen(r, heap[QueriesRef]) :
         /\ readers' = [readers EXCEPT ![r].seen = @ \cup {n}]
         /\ heap' = [heap EXCEPT ![CopyRef(r)] =
                         MapSet(@, n, heap[QueriesRef][n])]
    /\ UNCHANGED <<snap, ret, loads>>
    /\ UNCHANGED <<qvars, svars>>

\* line 149, when the loop has ended
ReturnQueries(r) ==
    /\ readers[r].pc = "range"
    /\ readers[r].op = "Queries"
    /\ Unseen(r, heap[QueriesRef]) = {}
    /\ Local(r, [readers[r] EXCEPT !.pc = "done", !.out = CopyRef(r)])

\* Query.Prepare on the descriptor registered under a name, lines 361-362
CallPrepare(r) ==
    /\ readers[r].pc = "idle"
    /\ \E n \in DOMAIN heap[QueriesRef], args \in ReadersTables :
         Local(r, [readers[r] EXCEPT
                      !.pc = "range", !.op = "Prepare", !.key = n,
                      !.args = args, !.acc = <<>>,
                      !.len = Cardinality(DOMAIN heap[QueriesRef][n].Mapping)])

\* as RangePrepare, with the name taken out of the descriptor's Mapping
RangePrepare_Consume(r) ==
    /\ readers[r].pc = "range"
    /\ readers[r].op = "Prepare"
    /\ \E k \in Unseen(r, heap[QueriesRef][readers[r].key].Mapping) :
         /\ readers' = [readers EXCEPT
               ![r].seen = @ \cup {k},
               ![r].acc = Append(@,
                   [Name |-> k,
                    Ord  |-> heap[QueriesRef][readers[r].key].Mapping[k]])]
         /\ heap' = [heap EXCEPT ![QueriesRef][readers[r].key].Mapping =
                         [x \in DOMAIN @ \ {k} |-> @[x]]]
    /\ UNCHANGED <<snap, ret, loads>>
    /\ UNCHANGED <<qvars, svars>>

\* one turn of the loop of lines 363-365
RangePrepare(r) ==
    /\ readers[r].pc = "range"
    /\ readers[r].op = "Prepare"
    /\ \E k \in Unseen(r, heap[QueriesRef][readers[r].key].Mapping) :
         Local(r, [readers[r] EXCEPT
                      !.seen = @ \cup {k},
                      !.acc = Append(@,
                          [Name |-> k,
                           Ord  |-> heap[QueriesRef][readers[r].key].Mapping[k]])])

\* lines 367-375, when the loop has ended: the reader's slice is sorted and
\* the components are filled from the caller's table
ReturnPrepare(r) ==
    /\ readers[r].pc = "range"
    /\ readers[r].op = "Prepare"
    /\ Unseen(r, heap[QueriesRef][readers[r].key].Mapping) = {}
    /\ LET params == sortByOrd(Range(readers[r].acc))
       IN  Local(r, [readers[r] EXCEPT
                        !.pc = "done",
                        !.out = [i \in 1..readers[r].len |->
                                    IF i <= Len(params)
                                    THEN Lookup(readers[r].args, params[i].Name)
                                    ELSE Nil]])

NextReaders ==
    \E r \in ReaderIds :
        \/ CallQuery(r)
        \/ CallQueryNames(r)
        \/ RangeQueryNames(r)
        \/ ReturnQueryNames(r)
        \/ CallQueries(r)
        \/ RangeQueries(r)
        \/ ReturnQueries(r)
        \/ CallPrepare(r)
        \/ RangePrepare(r)
        \/ ReturnPrepare(r)

\* a loaded registry and its concurrent readers
SpecReaders == InitReaders /\ [][NextReaders]_vars

(***************************************************************************)
(* Vocabulary of the properties.                                           *)
(***************************************************************************)
\* NewQuery has returned
Analysed == pc \in {"done", "prepared"}

\* NewQuery has returned a descriptor
Described == Analysed /\ result.err = NoError

Descr == result.q[1]

Clean == stripSQLComments(body)

\* the descriptor came from handleNamedParams
NamedPath == Described /\ positionalParamRE(Clean) = <<>>

\* the descriptor came from handlePositionalParams
OrdinalPath == Described /\ positionalParamRE(Clean) # <<>>

\* the records of a set of matches, by ascending start
RECURSIVE ByStart(_)
ByStart(ms) ==
    IF ms = {} THEN <<>>
    ELSE LET m == CHOOSE x \in ms : \A y \in ms : x.start <= y.start
         IN  <<m>> \o ByStart(ms \ {m})

Groups(ms) == [i \in 1..Len(ms) |-> ms[i].group]

\* the index of the first occurrence of x in seq
FirstIndex(seq, x) == Min({i \in 1..Len(seq) : seq[i] = x})

\* the distinct elements of seq[1..i]
SeenBy(seq, i) == {seq[j] : j \in 1..i}

\* the non-reserved named placeholders the scan of a text finds, of both
\* named conventions, in document order
NamedOccurrences(text) ==
    Groups(ByStart({m \in Range(colonParamRE(text)) \cup Range(atSignParamRE(text)) :
                        ~isReservedName(m.group)}))

ReservedSet == {reservedNames[i] : i \in 1..Len(reservedNames)}

\* the conventions with a non-reserved placeholder in the stripped body
StylesUsed(text) ==
    {StylePositional : i \in {1 : j \in DOMAIN positionalParamRE(text)}}
    \cup {StyleColon : i \in {m \in Range(colonParamRE(text)) : m.group \notin ReservedSet}}
    \cup {StyleAtSign : i \in {m \in Range(atSignParamRE(text)) : m.group \notin ReservedSet}}

Ordinals(q) == {q.Mapping[k] : k \in DOMAIN q.Mapping}

C2_ContiguousOrdinals ==
    Described =>
        /\ Cardinality(DOMAIN Descr.Mapping) <= Len(Descr.Args)
        /\ \A k1, k2 \in DOMAIN Descr.Mapping :
              Descr.Mapping[k1] = Descr.Mapping[k2] => k1 = k2
        /\ Ordinals(Descr) = 1..Cardinality(DOMAIN Descr.Mapping)

\* fewer names than occurrences, on the named path
C2_Witness ==
    /\ NamedPath
    /\ Cardinality(DOMAIN Descr.Mapping) = 2
    /\ Len(Descr.Args) = 3

(***************************************************************************)
(* C3.  A named placeholder is rewritten only as a complete identifier:    *)
(* when one parameter name is a proper prefix of another, OrdinalQuery is  *)
(* the body in which every placeholder carries the ordinal of its whole    *)
(* name, never the ordinal of the shorter name followed by the leftover    *)
(* characters.                                                             *)
(***************************************************************************)
IsProperPrefix(n1, n2) == Len(n1) < Len(n2) /\ HasPrefixAt(n2, n1, 1)

\* the rewriting the claim describes: a sigil, an optional quote, a whole
\* identifier and an optional quote become the ordinal marker of that
\* identifier when it is a name of the mapping; all else is kept
RECURSIVE RewriteWhole(_, _, _)
RewriteWhole(s, mapping, from) ==
    IF from > Len(s) THEN <<>>
    ELSE LET first == from + 1 + QuoteAt(s, from + 1)
             last  == RunEnd(s, IdentChars, first)
         IN  IF /\ s[from] \in Sigils
                /\ first <= Len(s)
                /\ s[first] \in Letters
                /\ SubSeq(s, first, last) \in DOMAIN mapping
             THEN <<"$">> \o Decimal(mapping[SubSeq(s, first, last)])
                  \o RewriteWhole(s, mapping, last + QuoteAt(s, last + 1) + 1)
             ELSE <<s[from]>> \o RewriteWhole(s, mapping, from + 1)

HasPrefixPair(q) ==
    \E n1, n2 \in DOMAIN q.Mapping : IsProperPrefix(n1, n2)

C3_CompleteIdentifierRewrite ==
    (NamedPath /\ HasPrefixPair(Descr)) =>
        Descr.OrdinalQuery = OrdinalText(name, RewriteWhole(body, Descr.Mapping, 1))

(***************************************************************************)
(* C4.  Placeholder syntax after the first "--" of a line is never         *)
(* detected.  The placeholders of the raw body that start before the       *)
(* comment of their line decide the outcome alone: Args, Mapping and       *)
(* NamedArgs hold their names only, each once per occurrence, and the      *)
(* ordinal markers among them alone give the slots of the ordinal path.    *)
(***************************************************************************)
\* the first index of the line of s that holds index p
LineStart(s, p) ==
    IF \E r \in 1..(p - 1) : s[r] = NL
    THEN 1 + CHOOSE r \in 1..(p - 1) :
                s[r] = NL /\ \A t \in (r + 1)..(p - 1) : s[t] # NL
    ELSE 1

\* index p of s lies before the first "--" of its line
InCode(s, p) ==
    /\ s[p] # NL
    /\ \A r \in LineStart(s, p)..p : ~HasPrefixAt(s, CommentMarker, r)
    /\ ~(p > LineStart(s, p) /\ HasPrefixAt(s, CommentMarker, p - 1))

\* index p of s lies in a comment: at or after the first "--" of its line
InComment(s, p) == s[p] # NL /\ ~InCode(s, p)

\* the matches of a scan of the raw body whose placeholder is not in a
\* comment (the sigil or the "$" follows the first character of a named
\* match and is the first character of an ordinal one)
CodeNamed(s) ==
    {m \in Range(colonParamRE(s)) \cup Range(atSignParamRE(s)) :
        InCode(s, m.start + 1) /\ ~isReservedName(m.group)}

CodeOrdinal(s) == {m \in Range(positionalParamRE(s)) : InCode(s, m.start)}

\* the distinct elements of seq, in the order of their first occurrence
Distinct(seq) ==
    Groups(ByStart({[start |-> i, group |-> seq[i]] :
                       i \in {j \in 1..Len(seq) : FirstIndex(seq, seq[j]) = j}}))

C4_CommentsNotMined ==
    Described =>
        IF CodeOrdinal(body) # {}
        THEN /\ CodeNamed(body) = {}
             /\ Len(Descr.Args) =
                    maxParam(ByStart(CodeOrdinal(body)))
             /\ Descr.NamedArgs = Descr.Args
             /\ Cardinality(DOMAIN Descr.Mapping) = Len(Descr.Args)
        ELSE /\ Descr.Args = Groups(ByStart(CodeNamed(body)))
             /\ Descr.NamedArgs = Distinct(Descr.Args)
             /\ DOMAIN Descr.Mapping = Range(Descr.Args)

\* the same name is a placeholder before the comment of a line and in it:
\* it is detected once
C4_Witness ==
    /\ NamedPath
    /\ Len(Descr.Args) = 1
    /\ \E m \in Range(colonParamRE(body)) :
          /\ InComment(body, m.start + 1)
          /\ m.group = Descr.Args[1]
    /\ \E p \in 1..Len(body) : body[p] = "$" /\ InComment(body, p)

(***************************************************************************)
(* C5.  Substitution leaves comment text alone: on every line, the part    *)
(* from the first "--" to the end of the line is the same in OrdinalQuery  *)
(* (after its header line) and in Raw.                                     *)
(***************************************************************************)
\* the part of a line from its first "--" on; empty when it has none
CommentTail(line) ==
    LET idx == IndexOf(line, CommentMarker)
    IN  IF idx > 0 THEN SubSeq(line, idx, Len(line)) ELSE <<>>

\* OrdinalQuery without its header line
OrdinalBodyLines(q) == Tail(Split(q.OrdinalQuery))

C5_CommentTextKept ==
    Described =>
        /\ Len(OrdinalBodyLines(Descr)) = Len(Split(Descr.Raw))
        /\ \A i \in 1..Len(Split(Descr.Raw)) :
              CommentTail(OrdinalBodyLines(Descr)[i])
                  = CommentTail(Split(Descr.Raw)[i])

(***************************************************************************)
(* C6.  NewQuery fails with the mixed-parameter-style error, and returns   *)
(* no descriptor, exactly when more than one convention has a non-reserved *)
(* match in the comment-stripped body; the error names the conventions     *)
(* found and no other; otherwise a descriptor is returned.                 *)
(***************************************************************************)
C6_MixedStylesRejected ==
    Analysed =>
        IF Cardinality(StylesUsed(Clean)) > 1
        THEN /\ result.err.kind = "mixed parameter styles"
             /\ result.q = NilQuery
             /\ Range(result.err.found) = StylesUsed(Clean)
             /\ Len(result.err.found) = Cardinality(StylesUsed(Clean))
             /\ result.err.query = name
        ELSE /\ result.err = NoError
             /\ Len(result.q) = 1

\* the three conventions in one body
C6_Witness ==
    /\ Analysed
    /\ result.err # NoError
    /\ Len(result.err.found) = 3

(***************************************************************************)
(* C7.  On the ordinal path with highest marker $N, Mapping is exactly     *)
(* arg1..argN with argK mapped to K, Args is arg1..argN in order, and      *)
(* OrdinalQuery is the header line followed by the body, not rewritten.    *)
(***************************************************************************)
\* the value of the marker that starts at p of text
MarkerValue(text, p) == DecimalValue(SubSeq(text, p + 1, RunEnd(text, Digits, p + 1)))

\* the positions of text where a "$" is followed by a digit
MarkerStarts(text) ==
    {p \in 1..(Len(text) - 1) : text[p] = "$" /\ text[p + 1] \in Digits}

HighestMarker(text) ==
    CHOOSE n \in {MarkerValue(text, p) : p \in MarkerStarts(text)} :
        \A p \in MarkerStarts(text) : MarkerValue(text, p) <= n

ArgName(k) == <<"a", "r", "g">> \o Decimal(k)

C7_OrdinalSlots ==
    OrdinalPath =>
        LET n == HighestMarker(Clean)
        IN  /\ Len(Descr.Args) = n
            /\ \A k \in 1..n : Descr.Args[k] = ArgName(k)
            /\ DOMAIN Descr.Mapping = {ArgName(k) : k \in 1..n}
            /\ \A k \in 1..n : Descr.Mapping[ArgName(k)] = k
            /\ Descr.OrdinalQuery = HeaderPrefix \o name \o <<NL>> \o body

\* the highest marker is $2, it occurs twice, and $1 never occurs
C7_Witness ==
    /\ OrdinalPath
    /\ Len(Descr.Args) = 2
    /\ Cardinality(MarkerStarts(Clean)) = 2
    /\ \A p \in MarkerStarts(Clean) : MarkerValue(Clean, p) = 2

(***************************************************************************)
(* C8.  A body with no placeholder syntax at all gives a descriptor with   *)
(* empty Args and empty Mapping whose OrdinalQuery is the header line      *)
(* "-- name: <name>", a newline and the unmodified body.                   *)
(***************************************************************************)
\* a "$" and a digit, or a sigil, an optional quote and a letter, at p
PlaceholderSyntaxAt(s, p) ==
    \/ s[p] = "$" /\ p + 1 <= Len(s) /\ s[p + 1] \in Digits
    \/ /\ s[p] \in Sigils
       /\ \/ p + 1 <= Len(s) /\ s[p + 1] \in Letters
          \/ p + 2 <= Len(s) /\ s[p + 1] \in Quotes /\ s[p + 2] \in Letters

NoPlaceholderSyntax(s) == \A p \in 1..Len(s) : ~PlaceholderSyntaxAt(s, p)

C8_NoPlaceholders ==
    (Analysed /\ NoPlaceholderSyntax(body)) =>
        /\ result.err = NoError
        /\ Len(result.q) = 1
        /\ Descr.Args = <<>>
        /\ DOMAIN Descr.Mapping = {}
        /\ Descr.OrdinalQuery = HeaderPrefix \o name \o <<NL>> \o body

\* a body that holds sigils and quotes, and no placeholder
C8_Witness ==
    /\ Described
    /\ NoPlaceholderSyntax(body)
    /\ Len(body) >= 4
    /\ ":" \in Range(body)
    /\ "'" \in Range(body)
    /\ Descr.Args = <<>>

(***************************************************************************)
(* C9.  A reserved name in placeholder position is in none of Args,        *)
(* Mapping and NamedArgs, is no convention for the validation of styles,   *)
(* and its text is kept in OrdinalQuery: every reserved token of the body  *)
(* is still there after the rewriting.                                     *)
(***************************************************************************)
\* a sigil, an optional quote and the whole identifier res start at p
ReservedTokenAt(s, p, res) ==
    /\ s[p] \in Sigils
    /\ HasPrefixAt(s, res, p + 1 + QuoteAt(s, p + 1))
    /\ RunEnd(s, IdentChars, p + 1 + QuoteAt(s, p + 1))
          = p + QuoteAt(s, p + 1) + Len(res)

ReservedTokens(s) ==
    Cardinality({<<p, res>> \in (1..Len(s)) \X ReservedSet :
                    ReservedTokenAt(s, p, res)})

C9_ReservedUntouched ==
    /\ Analysed => (result.err = NoError <=> Cardinality(StylesUsed(Clean)) <= 1)
    /\ Described =>
        /\ \A res \in ReservedSet :
              /\ res \notin Range(Descr.Args)
              /\ res \notin DOMAIN Descr.Mapping
              /\ res \notin Range(Descr.NamedArgs)
        /\ ReservedTokens(SubSeq(Descr.OrdinalQuery,
                                 Len(OrdinalText(name, <<>>)) + 1,
                                 Len(Descr.OrdinalQuery)))
              = ReservedTokens(Descr.Raw)

(***************************************************************************)
(* C10.  Prepare returns a sequence as long as Mapping whose element k is  *)
(* the caller's value for the name of ordinal k, nil when the caller's     *)
(* table has no such name; names of the table that are not in Mapping      *)
(* change nothing.                                                         *)
(***************************************************************************)
Prepared == pc = "prepared"

\* the name that Mapping maps to ordinal k
NameOf(q, k) == CHOOSE n \in DOMAIN q.Mapping : q.Mapping[n] = k

C10_PrepareBindsByOrdinal ==
    Prepared =>
        /\ Len(prepared) = Cardinality(DOMAIN Descr.Mapping)
        /\ \A k \in 1..Len(prepared) :
              /\ \E n \in DOMAIN Descr.Mapping : Descr.Mapping[n] = k
              /\ prepared[k] =
                    IF NameOf(Descr, k) \in DOMAIN callArgs
                    THEN callArgs[NameOf(Descr, k)]
                    ELSE Nil

\* two names, the caller gives the second and a name the query does not use
C10_Witness ==
    /\ Prepared
    /\ Len(prepared) = 2
    /\ prepared[1] = Nil
    /\ prepared[2] \in ArgValues
    /\ ExtraArg \in DOMAIN callArgs

(***************************************************************************)
(* Vocabulary of the properties of the registry.                           *)
(***************************************************************************)
\* the registry's map
Registry == heap[QueriesRef]

\* this step is a call of loadQueriesFromFile; ret' holds its source
IsLoad == ret'.op = "load" /\ loads' = loads + 1

\* the blocks the scanner cut the source of that call into
LoadedBlocks == ret'.newQueries

\* the names of that source that the registry held before the call
Clash == DOMAIN LoadedBlocks \cap DOMAIN Registry

\* the blocks of that source that fail parameter validation
Rejected ==
    {n \in DOMAIN LoadedBlocks :
        Cardinality(StylesUsed(stripSQLComments(LoadedBlocks[n].Query))) > 1}

\* after the call, every clashing name still has the descriptor it had, and
\* a lookup returns it
FirstKept ==
    \A n \in Clash :
        /\ n \in DOMAIN Registry'
        /\ Registry'[n] = Registry[n]
        /\ Query(heap', n) = [q |-> <<Registry[n]>>, err |-> NoError]

(***************************************************************************)
(* C11.  A load of a source that defines a block under a name the registry *)
(* already holds fails with the duplicate-name error, and the registry     *)
(* keeps the first source's descriptor under that name.                    *)
(* Stated as in the claim, the error is always the duplicate-name error:   *)
(***************************************************************************)
C11_Original ==
    [][(IsLoad /\ Clash # {}) =>
          /\ ret'.err.kind = "already exists"
          /\ FirstKept]_vars

\* C11 as amended: the load fails, with the duplicate-name error for one of
\* the clashing names unless the loop first reaches a block of the same
\* source that fails parameter validation, and then with the creation error
\* of that block; the first source's descriptor is kept in both cases.
C11_DuplicateNameRejected ==
    [][(IsLoad /\ Clash # {}) =>
          /\ \/ /\ ret'.err.kind = "already exists"
                /\ ret'.err.query \in Clash
             \/ /\ ret'.err.kind = "Error creating query"
                /\ ret'.err.query \in Rejected
          /\ FirstKept]_vars

\* a second source from another file has failed on a name of the first
C11_Witness ==
    /\ ret.op = "load"
    /\ loads = 2
    /\ ret.err.kind = "already exists"
    /\ ret.err.query \in DOMAIN Registry
    /\ Registry[ret.err.query].Path # ret.file

(***************************************************************************)
(* C12.  A load is all-or-nothing: when loadQueriesFromFile returns an     *)
(* error the registry holds exactly what it held before the call, and when *)
(* it returns no error every block the scanner emitted is registered.      *)
(***************************************************************************)
C12_LoadAllOrNothing ==
    [][IsLoad =>
          IF ret'.err # NoError
          THEN Registry' = Registry
          ELSE /\ DOMAIN Registry' = DOMAIN Registry \cup DOMAIN LoadedBlocks
               /\ \A n \in DOMAIN Registry : Registry'[n] = Registry[n]]_vars

(***************************************************************************)
(* Vocabulary of the properties of the scanner.                            *)
(***************************************************************************)
\* every line is read: Run returns scanner.queries
Returned == lineNo = Len(input)

\* the map Run returns
Emitted == scanner.queries

\* the lines read so far
LinesRead == SubSeq(input, 1, lineNo)

\* the line is a name directive
IsNameDirective(line) == getTag(line) # <<>>

(***************************************************************************)
(* C13.  Every block in the map that Scanner.Run returns has a body that   *)
(* is not empty, whatever the stream.                                      *)
(***************************************************************************)
C13_NoEmptyBlocks ==
    Returned => \A n \in DOMAIN Emitted : Emitted[n].Query # <<>>

(***************************************************************************)
(* C14.  A stream without a name directive gives exactly one block: its    *)
(* name is the last path segment of the label without the file-type        *)
(* suffix, and its body holds the content lines of the stream from the     *)
(* first line on that is neither blank nor a comment.  As amended, this is *)
(* said of the streams that have such a line.                              *)
(***************************************************************************)
\* the label cut down to its last path segment
LastSegment(label) ==
    LET slashes == {i \in 1..Len(label) : label[i] = "/"}
    IN  IF slashes = {} THEN label
        ELSE SubSeq(label, Max(slashes) + 1, Len(label))

\* a file name without its suffix, the suffix starting at the last dot
WithoutSuffix(file) ==
    LET dots == {i \in 1..Len(file) : file[i] = "."}
    IN  IF dots = {} THEN file ELSE SubSeq(file, 1, Max(dots) - 1)

BlankOrComment(line) ==
    \/ \A i \in 1..Len(line) : line[i] \in UnicodeSpace
    \/ HasPrefixAt(line, CommentMarker, RunEnd(line, UnicodeSpace, 1) + 1)

\* the index of the first line that is neither blank nor a comment, 0 when
\* there is none
FirstContent(lines) ==
    IF \A i \in 1..Len(lines) : BlankOrComment(lines[i]) THEN 0
    ELSE Min({i \in 1..Len(lines) : ~BlankOrComment(lines[i])})

\* a line that goes into a body: not a name directive, not a metadata line,
\* and not blank
IsContent(line) ==
    /\ ~IsNameDirective(line)
    /\ ~getMetadata(line).ok
    /\ \E i \in 1..Len(line) : line[i] \notin TrimCutset

\* the content lines among lines, each without the spaces and tabs around it
RECURSIVE ContentOf(_)
ContentOf(lines) ==
    IF lines = <<>> THEN <<>>
    ELSE (IF IsContent(Head(lines)) THEN <<Trim(Head(lines), TrimCutset)>>
          ELSE <<>>) \o ContentOf(Tail(lines))

NoDirective == \A i \in 1..Len(input) : ~IsNameDirective(input[i])

\* the one block of the claim: the fallback name, and the content from the
\* first line on that is neither blank nor a comment
OneFallbackBlock ==
    /\ DOMAIN Emitted = {WithoutSuffix(LastSegment(fileName))}
    /\ \A n \in DOMAIN Emitted :
          Emitted[n].Query =
              Join(ContentOf(SubSeq(input, FirstContent(input), Len(input))))

\* C14 as stated, of every stream without a name directive
C14_Original == (Returned /\ NoDirective) => OneFallbackBlock

\* C14 as amended, of the streams without a name directive that have a line
\* which is neither blank nor a comment
C14_FallbackName ==
    (Returned /\ NoDirective /\ FirstContent(input) > 0) => OneFallbackBlock

\* a label with a directory, a comment before the content, and a body of
\* two lines
C14_Witness ==
    /\ Returned
    /\ NoDirective
    /\ "/" \in Range(fileName)
    /\ Len(input) = 3
    /\ BlankOrComment(input[1])
    /\ DOMAIN Emitted = {<<"c">>}
    /\ NL \in Range(Emitted[<<"c">>].Query)

(***************************************************************************)
(* C15.  While the scanner is seeking, a line that is blank or starts with *)
(* the comment marker, and is not a name directive, is discarded: reading  *)
(* it changes no body, no metadata table and not the current name, and the *)
(* scanner keeps seeking.  So nothing is recorded while the scanner seeks, *)
(* and the map returned is the one the stream gives without the lines      *)
(* discarded at its start.                                                 *)
(***************************************************************************)
\* this step reads a line that the seeking scanner is to discard
ReadsDiscardable ==
    /\ lineNo' = lineNo + 1
    /\ state = "initialState"
    /\ BlankOrComment(input[lineNo + 1])
    /\ ~IsNameDirective(input[lineNo + 1])

\* the number of lines at the start of the stream that are blank or
\* comments and not name directives
RECURSIVE SeekingPrefix(_)
SeekingPrefix(lines) ==
    IF lines # <<>> /\ BlankOrComment(Head(lines)) /\ ~IsNameDirective(Head(lines))
    THEN 1 + SeekingPrefix(Tail(lines))
    ELSE 0

C15_SeekingDiscards ==
    /\ [][ReadsDiscardable =>
             /\ scanner'.queries = scanner.queries
             /\ scanner'.current = scanner.current
             /\ state' = "initialState"]_vars
    /\ [](state = "initialState" => scanner.queries = EmptyMap)
    /\ [](Returned =>
             Emitted = Run(fileName, SubSeq(input, SeekingPrefix(input) + 1,
                                            Len(input))))

\* a metadata line was read while seeking, and the block opened after it
\* has content and no metadata
C15_Witness ==
    /\ Returned
    /\ Len(input) >= 3
    /\ getMetadata(input[1]).ok
    /\ IsNameDirective(input[2])
    /\ getTag(input[2]) \in DOMAIN Emitted
    /\ Emitted[getTag(input[2])].Metadata = EmptyMap
    /\ Emitted[getTag(input[2])].Query # <<>>

(***************************************************************************)
(* C16.  Blocks are additive per name within one stream.  No step of the   *)
(* scanner removes a block, shortens or rewrites the body it has so far,   *)
(* or drops a metadata key; and when Run returns, the body of every block  *)
(* is made of the content lines read while its name was current, in stream *)
(* order, whether the name was current once or several times, and its      *)
(* metadata table has the keys of the metadata lines read while its name   *)
(* was current.                                                            *)
(***************************************************************************)
\* the name that is current when line i is handled: the name of the last
\* name directive before it, the fallback name when there is none
OwnerOf(i) ==
    LET directives == {j \in 1..(i - 1) : IsNameDirective(input[j])}
    IN  IF directives = {} THEN WithoutSuffix(LastSegment(fileName))
        ELSE getTag(input[Max(directives)])

\* the lines after the seeking that are handled while n is current, in
\* stream order, from line i on
RECURSIVE LinesOf(_, _)
LinesOf(n, i) ==
    IF i > Len(input) THEN <<>>
    ELSE (IF i > SeekingPrefix(input) /\ OwnerOf(i) = n
          THEN <<input[i]>> ELSE <<>>) \o LinesOf(n, i + 1)

\* the keys of the metadata lines among lines
MetadataKeys(lines) ==
    {getMetadata(lines[i]).key :
        i \in {j \in 1..Len(lines) :
                  ~IsNameDirective(lines[j]) /\ getMetadata(lines[j]).ok}}

IsPrefix(s, t) == Len(s) <= Len(t) /\ SubSeq(t, 1, Len(s)) = s

C16_AdditiveBlocks ==
    /\ [][\A n \in DOMAIN scanner.queries :
             /\ n \in DOMAIN scanner'.queries
             /\ IsPrefix(scanner.queries[n].Query, scanner'.queries[n].Query)
             /\ DOMAIN scanner.queries[n].Metadata
                    \subseteq DOMAIN scanner'.queries[n].Metadata]_vars
    /\ [](Returned =>
             \A n \in DOMAIN Emitted :
                /\ Emitted[n].Query = Join(ContentOf(LinesOf(n, 1)))
                /\ DOMAIN Emitted[n].Metadata = MetadataKeys(LinesOf(n, 1)))

\* a name directive repeats the name of an earlier block that has content,
\* and content follows it
C16_Witness ==
    /\ Returned
    /\ Len(input) = 4
    /\ ~BlankOrComment(input[1])
    /\ IsNameDirective(input[2])
    /\ IsNameDirective(input[3])
    /\ getTag(input[3]) = WithoutSuffix(LastSegment(fileName))
    /\ getTag(input[2]) # getTag(input[3])
    /\ IsContent(input[4])
    /\ NL \in Range(Emitted[getTag(input[3])].Query)

(***************************************************************************)
(* C17.  When Run returns, the metadata table of every block maps each key *)
(* to the value of the last metadata line with that key, compared without  *)
(* regard to letter case, among the lines read while the block's name was  *)
(* current; keys are in lower case and values carry no white space around  *)
(* them.                                                                   *)
(***************************************************************************)
\* the indexes of the metadata lines of lines whose key is k in lower case
MetadataLinesFor(lines, k) ==
    {i \in 1..Len(lines) :
        /\ ~IsNameDirective(lines[i])
        /\ getMetadata(lines[i]).ok
        /\ ToLower(getMetadata(lines[i]).key) = k}

\* the text of a metadata line after its first colon
AfterColon(line) == SubSeq(line, IndexOf(line, <<":">>) + 1, Len(line))

C17_LastWriteWins ==
    Returned =>
        \A n \in DOMAIN Emitted :
            \A k \in DOMAIN Emitted[n].Metadata :
                /\ ToLower(k) = k
                /\ MetadataLinesFor(LinesOf(n, 1), k) # {}
                /\ Emitted[n].Metadata[k] =
                      Trim(AfterColon(LinesOf(n, 1)[Max(MetadataLinesFor(LinesOf(n, 1), k))]),
                           UnicodeSpace)

\* one block has read two metadata lines whose keys differ in letter case
\* only and whose values differ
C17_Witness ==
    /\ Returned
    /\ \E n \in DOMAIN Emitted :
          \E i, j \in 1..Len(LinesOf(n, 1)) :
             /\ i < j
             /\ {i, j} \subseteq MetadataLinesFor(LinesOf(n, 1), <<"k">>)
             /\ getMetadata(LinesOf(n, 1)[i]).value
                    # getMetadata(LinesOf(n, 1)[j]).value
             /\ Emitted[n].Metadata[<<"k">>] = getMetadata(LinesOf(n, 1)[j]).value

(***************************************************************************)
(* C18.  The key name is never a metadata key: getMetadata returns it for  *)
(* no line the scanner has read, whatever the letter case of the line, and *)
(* no metadata table of the scanner ever has the key name.                 *)
(***************************************************************************)
NameKey == <<"n", "a", "m", "e">>

C18_NameNeverMetadata ==
    /\ lineNo > 0 =>
          (getMetadata(scanner.line).ok => getMetadata(scanner.line).key # NameKey)
    /\ \A n \in DOMAIN scanner.queries :
          NameKey \notin DOMAIN scanner.queries[n].Metadata

(***************************************************************************)
(* C19.  QueryNames returns the names the registry holds, each once, in    *)
(* ascending byte-wise lexicographic order; for an empty registry it       *)
(* returns the empty list.                                                 *)
(***************************************************************************)
C19_QueryNamesSorted ==
    ret.op = "QueryNames" =>
        /\ Range(ret.names) = DOMAIN Registry
        /\ Len(ret.names) = Cardinality(DOMAIN Registry)
        /\ \A i, j \in 1..Len(ret.names) :
              i < j => StringLess(ret.names[i], ret.names[j])
        /\ (Registry = EmptyMap => ret.names = <<>>)

\* two loads have registered three names, one of them a prefix of another
\* and one in upper case
C19_Witness ==
    /\ ret.op = "QueryNames"
    /\ loads = 2
    /\ ret.names = << <<"B">>, <<"a">>, <<"a", "b">> >>

(***************************************************************************)
(* C20.  Queries returns a snapshot: the map returned holds the entries of *)
(* the registry at the call and the call leaves the registry as it is; and *)
(* when the caller deletes or sets keys of that map, the registry keeps    *)
(* its entries, so that Query, QueryNames and Queries return what they     *)
(* returned before.                                                        *)
(***************************************************************************)
\* the entries of the map Queries would return on heap h
QueriesResult(h) == Queries(h).heap[Queries(h).ref]

C20_DefensiveSnapshot ==
    /\ [][ret'.op = "Queries" =>
             /\ heap'[snap'] = Registry
             /\ Registry' = Registry]_vars
    /\ [][ret'.op = "mutate" =>
             /\ Registry' = Registry
             /\ \A n \in LookupNames : Query(heap', n) = Query(heap, n)
             /\ QueryNames(heap') = QueryNames(heap)
             /\ QueriesResult(heap') = QueriesResult(heap)]_vars

\* the caller has deleted a registered name from the map it holds and set
\* a name the registry lacks
C20_Witness ==
    /\ ret.op = "mutate"
    /\ snap # NoRef
    /\ \E n \in DOMAIN Registry : n \notin DOMAIN heap[snap]
    /\ \E n \in DOMAIN heap[snap] : n \notin DOMAIN Registry

(***************************************************************************)
(* C21.  Query returns a descriptor and no error exactly for the names the *)
(* registry holds, and for the others no descriptor and the not-found      *)
(* error.  The descriptor found has the lookup key as Name and, as Path,   *)
(* the label of the source that defined it: a load registers its blocks    *)
(* under their names with its own label, and changes no descriptor already *)
(* registered.                                                             *)
(***************************************************************************)
\* the last operation was a lookup
LookedUp == ret.op = "Query"

Found == ret.q # NilQuery /\ ret.err = NoError

C21_LookupByName ==
    /\ [](LookedUp =>
            /\ Found <=> ret.key \in DOMAIN Registry
            /\ Found => /\ ret.q[1] = Registry[ret.key]
                        /\ ret.q[1].Name = ret.key
            /\ ~Found => /\ ret.q = NilQuery
                         /\ ret.err = NotFound(ret.key))
    /\ [][IsLoad =>
            /\ \A n \in DOMAIN Registry :
                  n \in DOMAIN Registry' /\ Registry'[n] = Registry[n]
            /\ \A n \in DOMAIN Registry' \ DOMAIN Registry :
                  /\ n \in DOMAIN LoadedBlocks
                  /\ Registry'[n].Name = n
                  /\ Registry'[n].Path = ret'.file]_vars

\* after two loads, a name defined by the second source is found while the
\* registry holds a descriptor of the other source
C21_Witness ==
    /\ LookedUp
    /\ Found
    /\ loads = 2
    /\ \E n \in DOMAIN Registry : Registry[n].Path # ret.q[1].Path

(***************************************************************************)
(* C22.  NewQuery carries its inputs through: in every descriptor it       *)
(* returns, Raw is the body it was given, character for character, Path is *)
(* the label it was given and Name the name it was given.  The rewriting   *)
(* of placeholders shows in OrdinalQuery only.                             *)
(***************************************************************************)
C22_InputsCarriedThrough ==
    Described =>
        /\ Descr.Raw = body
        /\ Descr.Path = path
        /\ Descr.Name = name

\* a body with a comment whose placeholder has been rewritten
C22_Witness ==
    /\ NamedPath
    /\ Descr.Mapping # EmptyMap
    /\ IndexOf(body, CommentMarker) > 0
    /\ Descr.OrdinalQuery # OrdinalText(name, body)

(***************************************************************************)
(* C23.  Analysis is deterministic: the descriptor or the error NewQuery   *)
(* returns for a name, a label and a body is the same whatever order the   *)
(* range statement of line 322 takes.  For the registry, the contents and  *)
(* the error a load leaves are the same whatever order the range           *)
(* statement of line 156 takes (LoadOutcomeFixed).                         *)
(***************************************************************************)
C23_Deterministic ==
    Analysed =>
        \A keys \in RangeChoices(body) :
            NewQuery(name, path, body, NilMap, keys) = result

\* a load leaves what every other order of its range statements leaves
LoadOutcomeFixed ==
    [][IsLoad =>
         \A names \in RangeOrders(LoadedBlocks),
            keysOf \in KeyChoices(LoadedBlocks) :
            loadLoop(Registry, ret'.file, LoadedBlocks, names, keysOf)
                = [queries |-> Registry', err |-> ret'.err]]_vars

(***************************************************************************)
(* C24.  A load runs to completion or fails: when the line reader stops    *)
(* with an error before the end of the stream, loadQueriesFromFile returns *)
(* an error.                                                               *)
(***************************************************************************)
C24_ReadErrorFailsLoad ==
    [][(IsLoad /\ ret'.ioErr # NoError) =>
          /\ ret'.err # NoError
          /\ ~(ret'.err = NoError /\ Registry' # Registry)]_vars

(***************************************************************************)
(* C25.  Once loading is finished, the readers are safe in every           *)
(* interleaving: no step of Query, QueryNames, Queries or Prepare writes   *)
(* to the registry's map or to a descriptor in it, and every call returns  *)
(* what it returns when it runs alone on the registry.                     *)
(***************************************************************************)
\* reader r has returned what its call returns when run alone
Sequential(r) ==
    LET rd == readers[r]
    IN  /\ rd.op = "Query" => rd.out = Query(heap, rd.key)
        /\ rd.op = "QueryNames" => rd.out = QueryNames(heap)
        /\ rd.op = "Queries" => heap[rd.out] = QueriesResult(heap)
        /\ rd.op = "Prepare" => rd.out = Prepare(Registry[rd.key], rd.args)

C25_ConcurrentReaders ==
    /\ [][Registry' = Registry]_vars
    /\ [](\A r \in ReaderIds : readers[r].pc = "done" => Sequential(r))

\* one reader has bound two parameters while the other is inside a range
\* loop over the same registry
C25_Witness ==
    \E r1, r2 \in ReaderIds :
        /\ readers[r1].pc = "done"
        /\ readers[r1].op = "Prepare"
        /\ Len(readers[r1].out) = 2
        /\ readers[r2].pc = "range"
        /\ readers[r2].seen # {}
        /\ readers[r2].op \in {"Queries", "Prepare"}

(***************************************************************************)
(* C26.  GetMetadata looks a key up without regard to letter case and to   *)
(* white space around it: asked for any variant of a key the scanner has   *)
(* stored, it returns the stored value and true; asked for a key of which  *)
(* no stored key is a variant, it returns false.                           *)
(***************************************************************************)
\* a and b are the same up to the case of their letters
SameButCase(a, b) ==
    /\ Len(a) = Len(b)
    /\ \A i \in 1..Len(a) :
          \/ a[i] = b[i]
          \/ \E j \in 1..Len(UpperChars) :
                {a[i], b[i]} = {UpperChars[j], LowerChars[j]}

\* asked is a variant of stored: stored in some letter case, with white
\* space before and after it
VariantOf(asked, stored) ==
    \E i \in 1..Len(asked) + 1, j \in 0..Len(asked) :
        /\ i <= j + 1
        /\ \A p \in 1..i - 1 : asked[p] \in UnicodeSpace
        /\ \A p \in j + 1..Len(asked) : asked[p] \in UnicodeSpace
        /\ SameButCase(SubSeq(asked, i, j), stored)

Asked == ret.op = "GetMetadata"

C26_GetMetadataNormalizes ==
    Asked =>
        /\ \A stored \in DOMAIN Descr.Metadata :
              VariantOf(ret.key, stored) =>
                  ret.ok /\ ret.value = Descr.Metadata[stored]
        /\ (\A stored \in DOMAIN Descr.Metadata : ~VariantOf(ret.key, stored))
              => ~ret.ok

\* a key stored from a line in upper case is found under a variant in
\* another case with white space around it
C26_Witness ==
    /\ Asked
    /\ ret.ok
    /\ ret.key \notin DOMAIN Descr.Metadata
    /\ Cardinality(DOMAIN Descr.Metadata) >= 2
    /\ \E c \in Range(ret.key) : c \in UnicodeSpace

(***************************************************************************)
(* C27.  The scanner has two states, initialState (seeking, the first) and *)
(* queryState (in a block), and the move is one-way: it is in queryState   *)
(* exactly from the first line on that is a name directive or is neither   *)
(* blank nor a comment, and stays there for the rest of the stream.  Every *)
(* step reads the next line of the stream, once, and the scan ends when    *)
(* every line is read.                                                     *)
(***************************************************************************)
\* the line takes the seeking scanner into a block
LeavesSeeking(line) == IsNameDirective(line) \/ ~BlankOrComment(line)

C27_TwoStatesOneWay ==
    /\ [](state \in {"initialState", "queryState"})
    /\ [](lineNo = 0 => state = "initialState")
    /\ [](state = "queryState" <=>
             \E i \in 1..lineNo : LeavesSeeking(input[i]))
    /\ [][state = "queryState" => state' = "queryState"]_vars
    /\ [][/\ lineNo < Len(input)
          /\ lineNo' = lineNo + 1
          /\ scanner'.line = input[lineNo']
          /\ input' = input]_vars
    /\ <>[]Returned

\* the scanner has sought over a comment, entered a block on a content line
\* and stayed in it over a blank line and a name directive
C27_Witness ==
    /\ Returned
    /\ Len(input) = 4
    /\ state = "queryState"
    /\ ~LeavesSeeking(input[1])
    /\ ~BlankOrComment(input[2])
    /\ input[3] = <<>>
    /\ IsNameDirective(input[4])

(***************************************************************************)
(* C28.  When Run returns, the body of every block is made of the lines    *)
(* handled while the block was current that are neither name directives    *)
(* nor metadata lines nor blank, in stream order, each without the spaces  *)
(* and tabs around it, joined by newlines.  No line of a body is empty,    *)
(* and a blank line does not end the block: the scanner stays in the       *)
(* block, the block stays current, and nothing recorded changes.           *)
(***************************************************************************)
\* the line has nothing but spaces and tabs
Blank(line) == \A i \in 1..Len(line) : line[i] \in TrimCutset

\* the indexes, in the stream, of the lines that make the body of block n
BodyLinesOf(n) ==
    {i \in SeekingPrefix(input) + 1..Len(input) :
        /\ OwnerOf(i) = n
        /\ ~IsNameDirective(input[i])
        /\ ~getMetadata(input[i]).ok
        /\ ~Blank(input[i])}

\* the lines of set I of indexes, trimmed and joined in stream order
RECURSIVE JoinTrimmed(_)
JoinTrimmed(I) ==
    IF I = {} THEN <<>>
    ELSE (IF I = {Min(I)} THEN <<>> ELSE JoinTrimmed(I \ {Max(I)}) \o <<NL>>)
         \o Trim(input[Max(I)], TrimCutset)

\* no line of text is empty
NoEmptyLine(text) ==
    text # <<>> =>
        /\ text[1] # NL
        /\ text[Len(text)] # NL
        /\ \A i \in 1..Len(text) - 1 : ~(text[i] = NL /\ text[i + 1] = NL)

\* this step handles a blank line inside a block
ReadsBlankInBlock ==
    /\ lineNo' = lineNo + 1
    /\ state = "queryState"
    /\ Blank(input[lineNo + 1])

C28_BodyOfContentLines ==
    /\ [](Returned =>
            \A n \in DOMAIN Emitted :
                /\ Emitted[n].Query = JoinTrimmed(BodyLinesOf(n))
                /\ NoEmptyLine(Emitted[n].Query))
    /\ [][ReadsBlankInBlock =>
            /\ state' = "queryState"
            /\ scanner'.current = scanner.current
            /\ scanner'.queries = scanner.queries]_vars

\* a block whose two content lines have a blank line between them, the
\* second with a blank before and a tab after it
C28_Witness ==
    /\ Returned
    /\ Len(input) = 4
    /\ IsNameDirective(input[1])
    /\ BodyLinesOf(getTag(input[1])) = {2, 4}
    /\ Blank(input[3])
    /\ input[4] # Trim(input[4], TrimCutset)
    /\ Emitted[getTag(input[1])].Query =
          input[2] \o <<NL>> \o Trim(input[4], TrimCutset)

(***************************************************************************)
(* C29.  In a block, a metadata line is attached to the block named by the *)
(* last name directive before it (the fallback name when there is none),   *)
(* never to a block whose name directive comes later: reading it sets the  *)
(* key in the table of the current block and changes no other table, and   *)
(* the current name is that of the last directive read.  So a metadata     *)
(* line between one block's content and the next name directive is in the  *)
(* earlier block's table.                                                  *)
(***************************************************************************)
\* this step handles a metadata line inside a block
ReadsMetadataInBlock ==
    /\ lineNo' = lineNo + 1
    /\ state = "queryState"
    /\ ~IsNameDirective(input[lineNo + 1])
    /\ getMetadata(input[lineNo + 1]).ok

\* the table of block n in scanner value s, empty for a block not yet made
TableOf(s, n) ==
    IF n \in DOMAIN s.queries THEN s.queries[n].Metadata ELSE EmptyMap

C29_MetadataToCurrentBlock ==
    /\ [][ReadsMetadataInBlock =>
            LET md    == getMetadata(input[lineNo + 1])
                owner == OwnerOf(lineNo + 1)
            IN  /\ scanner.current = owner
                /\ scanner'.current = owner
                /\ owner \in DOMAIN scanner'.queries
                /\ md.key \in DOMAIN scanner'.queries[owner].Metadata
                /\ scanner'.queries[owner].Metadata[md.key] = md.value
                /\ \A n \in DOMAIN scanner'.queries \ {owner} :
                      /\ n \in DOMAIN scanner.queries
                      /\ scanner'.queries[n] = scanner.queries[n]]_vars
    /\ [](Returned =>
            \A n \in DOMAIN Emitted :
                \A k \in DOMAIN Emitted[n].Metadata :
                    \E i \in SeekingPrefix(input) + 1..Len(input) :
                        /\ OwnerOf(i) = n
                        /\ ~IsNameDirective(input[i])
                        /\ getMetadata(input[i]).ok
                        /\ getMetadata(input[i]).key = k)

\* a metadata line between the content of one block and the name directive
\* of the next is in the table of the first, and the second has none
C29_Witness ==
    /\ Returned
    /\ Len(input) = 4
    /\ IsContent(input[1])
    /\ getMetadata(input[2]).ok
    /\ IsNameDirective(input[3])
    /\ IsContent(input[4])
    /\ getTag(input[3]) # OwnerOf(1)
    /\ DOMAIN TableOf(scanner, OwnerOf(1)) = {getMetadata(input[2]).key}
    /\ TableOf(scanner, getTag(input[3])) = EmptyMap

(***************************************************************************)
(* C30.  An identifier after two colons, as in a type cast, is no colon    *)
(* placeholder: Args has no entry for it, and its text is in OrdinalQuery  *)
(* as it is in the body, also when the identifier is a parameter of the    *)
(* body elsewhere.                                                         *)
(***************************************************************************)
\* two colons and the start of an identifier begin at p
CastAt(s, p) ==
    /\ p + 2 <= Len(s)
    /\ s[p] = ":"
    /\ s[p + 1] = ":"
    /\ s[p + 2] \in Letters

Casts(s) == {p \in 1..Len(s) : CastAt(s, p)}

\* the sigils of s that start a placeholder and are not the second colon of
\* a cast
GenuineSigils(s) ==
    {p \in 2..Len(s) :
        /\ s[p] \in Sigils
        /\ p + 1 + QuoteAt(s, p + 1) <= Len(s)
        /\ s[p + 1 + QuoteAt(s, p + 1)] \in Letters
        /\ ~CastAt(s, p - 1)}

\* OrdinalQuery without its header line
OrdinalBody(q) ==
    SubSeq(q.OrdinalQuery, Len(OrdinalText(q.Name, <<>>)) + 1,
           Len(q.OrdinalQuery))

C30_CastsUntouched ==
    /\ NamedPath =>
        /\ Len(Descr.Args) <= Cardinality(GenuineSigils(Clean))
        /\ (GenuineSigils(Clean) = {} => DOMAIN Descr.Mapping = {})
    /\ Described =>
        Cardinality(Casts(OrdinalBody(Descr))) = Cardinality(Casts(Descr.Raw))

=============================================================================
